---------------------------- MODULE Spec2Model ----------------------------
(***************************************************************************)
(* Model of the Yaesu G5500 rotator driver (src/g5500_direct.c): the       *)
(* controller thread g5500_control_thread and the hamlib API functions     *)
(* called by the main thread, communicating through the file-scope         *)
(* volatile scalars of the driver.                                         *)
(*                                                                         *)
(* The two threads interleave at the level of single accesses to the       *)
(* shared scalars: each thread holds a list of pending micro-operations    *)
(* (ctl_todo, api_todo); one step executes the operation at the head.      *)
(***************************************************************************)
EXTENDS Integers, Sequences, FiniteSets, TLC

\* ------------------------------------------------------------------------
\* program constants
\* ------------------------------------------------------------------------
ADC_MIN_POK == 1000
ADC_AZ_DEADBAND == 50
ADC_EL_DEADBAND == 50
PIN_AZ_CW == 25
PIN_AZ_CCW == 8
PIN_EL_UP == 7
PIN_EL_DOWN == 1
PIN_ACTIVE == 1
PIN_IDLE == 0
AZ_MOUNT_MIN == 0
AZ_MOUNT_MAX == 450
AZ_MOUNT_WRAP == 360
EL_MOUNT_MIN == 0
EL_MOUNT_MAX == 180
AZ_MOUNT_PARK == 0
EL_MOUNT_PARK == 0
SIM_OFF == 0
SIM_AZONLY == 1
SIM_EL90 == 2
SIM_EL180 == 3
AZ_SIM_SPEED == 10
EL_SIM_SPEED == 5
AZ_SIM_MAX_ADC == 2000
EL_SIM_MAX_ADC == 2000
N_EQUAL_STOPPED == 4
THREAD_PERIOD == 200000
MOTION_START_PERIOD == 1000000
STOP_SIGNAL_USLEEP == 100000
CAL_MIN_SPAN == 1000

CTS_STOP == 0
CTS_RUN == 1
CTS_CAL_START == 2
CTS_CAL_SEEK_MINS == 3
CTS_CAL_SEEK_MAXS == 4
CTS_ERR_ADC == 5
CTS_ERR_NOPOWER == 6
CTS_ERR_STUCK == 7

ROT_MOVE_UP == 2
ROT_MOVE_DOWN == 4
ROT_MOVE_LEFT == 8
ROT_MOVE_RIGHT == 16

G5500_RIG_OK == "OK"
G5500_RIG_CALIBRATING == "CALIBRATING"
G5500_RIG_ERR_ADC == "ADC_FAIL"
G5500_RIG_ERR_NOPOWER == "NO_POWER"
G5500_RIG_ERR_STUCK == "STUCK"
G5500_RIG_ERR_BADARGS == "BAD_ARGS"

Pins == {PIN_AZ_CW, PIN_AZ_CCW, PIN_EL_UP, PIN_EL_DOWN}
CTS_ERR == {CTS_ERR_ADC, CTS_ERR_NOPOWER, CTS_ERR_STUCK}
CTS_CAL == {CTS_CAL_START, CTS_CAL_SEEK_MINS, CTS_CAL_SEEK_MAXS}

\* ------------------------------------------------------------------------
\* bounds of the model
\* ------------------------------------------------------------------------
MaxTicks == 2
MaxCalls == 2
MaxSimTicks == 2
MaxSimCalls == 1
SeqTickCap == 2
MaxSeqCalls == 2
MaxMixTicks == 6
MaxMixCalls == 2
MaxArgTicks == 2
MaxArgCalls == 2
LiveTickCap == 1
MaxLiveCalls == 3
MaxSigTicks == 3
MaxSigCalls == 2
MaxConvSpan == 1777
MaxRunTicks == 46
MaxRunCalls == 2

\* ------------------------------------------------------------------------
\* state
\* ------------------------------------------------------------------------
VARIABLES
    mem,        \* the file-scope scalars of g5500_direct.c, by name
    gpio,       \* level of each output pin
    cal_file,   \* lines of $HOME/.hamlib_g5500_cal.txt, <<>> when absent
    has_status, \* my_rot_state->has_status, a set of ROT_STATUS_ flags
    ctl_pc,     \* position of the controller thread in its loop
    ctl_todo,   \* controller: operations left in the current statement
    ticks,      \* number of completed controller loop iterations
    api_call,   \* main thread: the API call in progress or last made
    api_todo,   \* main thread: operations left in the call in progress
    api_ret,    \* return value of the last completed API call
    calls,      \* number of API calls started
    hist        \* observations recorded for the properties

vars == <<mem, gpio, cal_file, has_status, ctl_pc, ctl_todo, ticks,
          api_call, api_todo, api_ret, calls, hist>>

g5500_thread_state == mem["g5500_thread_state"]
g5500_sim_mode == mem["g5500_sim_mode"]
el_mount_max == mem["el_mount_max"]
caps_max_el == mem["caps_max_el"]
ADC_az_min == mem["ADC_az_min"]
ADC_az_max == mem["ADC_az_max"]
ADC_el_min == mem["ADC_el_min"]
ADC_el_max == mem["ADC_el_max"]
ADC_cal_ok == mem["ADC_cal_ok"]
ADC_az_now == mem["ADC_az_now"]
ADC_az_target == mem["ADC_az_target"]
ADC_el_now == mem["ADC_el_now"]
ADC_el_target == mem["ADC_el_target"]
AZ_cmd_cw == mem["AZ_cmd_cw"]
AZ_cmd_ccw == mem["AZ_cmd_ccw"]
EL_cmd_up == mem["EL_cmd_up"]
EL_cmd_down == mem["EL_cmd_down"]
ADC_az_prev == mem["ADC_az_prev"]
ADC_el_prev == mem["ADC_el_prev"]
ADC_az_n_equal == mem["ADC_az_n_equal"]
ADC_el_n_equal == mem["ADC_el_n_equal"]

MemNames == {"g5500_thread_state", "g5500_sim_mode", "el_mount_max", "caps_max_el",
             "ADC_az_min", "ADC_az_max", "ADC_el_min", "ADC_el_max", "ADC_cal_ok",
             "ADC_az_now", "ADC_az_target", "ADC_el_now", "ADC_el_target",
             "AZ_cmd_cw", "AZ_cmd_ccw", "EL_cmd_up", "EL_cmd_down",
             "ADC_az_prev", "ADC_el_prev", "ADC_az_n_equal", "ADC_el_n_equal"}

\* ------------------------------------------------------------------------
\* derived states (the macros of g5500_direct.c), on a given memory m
\* ------------------------------------------------------------------------
AZ_cmd_active(m) == m["AZ_cmd_cw"] # 0 \/ m["AZ_cmd_ccw"] # 0
EL_cmd_active(m) == m["EL_cmd_up"] # 0 \/ m["EL_cmd_down"] # 0
AZ_is_stuck_early(m) == AZ_cmd_active(m) /\ m["ADC_az_n_equal"] >= N_EQUAL_STOPPED - 1
AZ_is_stuck(m) == AZ_cmd_active(m) /\ m["ADC_az_n_equal"] >= N_EQUAL_STOPPED
EL_is_stuck(m) == EL_cmd_active(m) /\ m["ADC_el_n_equal"] >= N_EQUAL_STOPPED
AZ_isat_ccw_lim(m) == m["ADC_cal_ok"] # 0 /\ m["ADC_az_now"] < m["ADC_az_min"] + ADC_AZ_DEADBAND
AZ_isat_cw_lim(m) == m["ADC_cal_ok"] # 0 /\ m["ADC_az_max"] < m["ADC_az_now"] + ADC_AZ_DEADBAND
EL_isat_down_lim(m) == m["ADC_cal_ok"] # 0 /\ m["ADC_el_now"] < m["ADC_el_min"] + ADC_EL_DEADBAND
EL_isat_up_lim(m) == m["ADC_cal_ok"] # 0 /\ m["ADC_el_max"] < m["ADC_el_now"] + ADC_EL_DEADBAND

\* ------------------------------------------------------------------------
\* conversion between degrees and ADC counts, for whole degrees.
\* The C expression is evaluated in floating point and truncated on the
\* conversion to uint16_t.
\* ------------------------------------------------------------------------
g5500_az_to_ADC(m, az) ==
    IF m["ADC_cal_ok"] = 0 THEN 0
    ELSE IF az < AZ_MOUNT_MIN THEN m["ADC_az_min"]
    ELSE IF az > AZ_MOUNT_MAX THEN m["ADC_az_max"]
    ELSE m["ADC_az_min"]
           + ((az - AZ_MOUNT_MIN) * (m["ADC_az_max"] - m["ADC_az_min"]))
                 \div (AZ_MOUNT_MAX - AZ_MOUNT_MIN)

\* The same conversions on the C types.  A float is the record [m, s] of the
\* value m / 2^s, with m the 24-bit significand (m = 0 for zero).  Float32
\* rounds the quotient p / q of two positive integers to the nearest float,
\* ties to even, by long division; rounding first to double, as the C
\* expression does, gives the same float, since p / q with q < 2^16 is never
\* within 2^-41 of a tie without being one.
RECURSIVE Pow2(_)
Pow2(n) == IF n = 0 THEN 1 ELSE 2 * Pow2(n - 1)

RECURSIVE FloatMant(_, _, _, _)
FloatMant(acc, r, q, s) ==
    IF acc >= 8388608
    THEN [m |-> acc + (IF 2 * r > q THEN 1 ELSE IF 2 * r = q THEN acc % 2 ELSE 0),
          s |-> s]
    ELSE FloatMant(2 * acc + (2 * r) \div q, (2 * r) % q, q, s + 1)

Float32(p, q) ==
    IF p = 0 THEN [m |-> 0, s |-> 0] ELSE FloatMant(p \div q, p % q, q, 0)

FloatFloor(f) == IF f.s > 30 THEN 0 ELSE f.m \div Pow2(f.s)
FloatLess(f, n) == FloatFloor(f) < n
FloatGreater(f, n) ==
    \/ FloatFloor(f) > n
    \/ FloatFloor(f) = n /\ (IF f.s > 30 THEN f.m # 0 ELSE f.m % Pow2(f.s) # 0)

\* the integer part of f * a / b for integers 0 <= a < 2^16 and b > 0, the
\* product taken in two halves of the significand to stay within 32 bits.  The
\* C expression is a double: the product is exact, and neither the quotient
\* nor the sum with a minimum below 2^15 can round up to the next integer,
\* which is at least 1 / (b * 2^s) away.
FloatTimesDiv(f, a, b) ==
    IF f.m = 0 THEN 0
    ELSE LET T == (f.m \div 4096) * a + ((f.m % 4096) * a) \div 4096
         IN  (T \div Pow2(f.s - 12)) \div b

g5500_ADC_to_az_wholedeg(m, adc) ==
    IF m["ADC_cal_ok"] = 0 THEN Float32(0, 1)
    ELSE Float32(((adc - m["ADC_az_min"]) * (AZ_MOUNT_MAX - AZ_MOUNT_MIN))
                    \div (m["ADC_az_max"] - m["ADC_az_min"]), 1)

g5500_ADC_to_az(m, adc) ==
    IF m["ADC_cal_ok"] = 0 THEN Float32(0, 1)
    ELSE IF adc < m["ADC_az_min"] THEN Float32(AZ_MOUNT_MIN, 1)
    ELSE IF adc > m["ADC_az_max"] THEN Float32(AZ_MOUNT_MAX, 1)
    ELSE Float32(AZ_MOUNT_MIN * (m["ADC_az_max"] - m["ADC_az_min"])
                   + (adc - m["ADC_az_min"]) * (AZ_MOUNT_MAX - AZ_MOUNT_MIN),
                 m["ADC_az_max"] - m["ADC_az_min"])

\* g5500_az_to_ADC on a float argument (AZ_MOUNT_MIN is 0.0)
g5500_az_to_ADC_float(m, az) ==
    IF m["ADC_cal_ok"] = 0 THEN 0
    ELSE IF FloatLess(az, AZ_MOUNT_MIN) THEN m["ADC_az_min"]
    ELSE IF FloatGreater(az, AZ_MOUNT_MAX) THEN m["ADC_az_max"]
    ELSE m["ADC_az_min"]
           + FloatTimesDiv(az, m["ADC_az_max"] - m["ADC_az_min"],
                           AZ_MOUNT_MAX - AZ_MOUNT_MIN)

g5500_el_to_ADC(m, el) ==
    IF m["ADC_cal_ok"] = 0 THEN 0
    ELSE IF el < EL_MOUNT_MIN THEN m["ADC_el_min"]
    ELSE IF el > m["el_mount_max"] THEN m["ADC_el_max"]
    ELSE IF m["g5500_sim_mode"] = SIM_AZONLY THEN 0
    ELSE m["ADC_el_min"]
           + ((el - EL_MOUNT_MIN) * (m["ADC_el_max"] - m["ADC_el_min"]))
                 \div (m["el_mount_max"] - EL_MOUNT_MIN)

\* AZ_is_wrapped(): g5500_ADC_to_az(ADC_az_now) >= AZ_MOUNT_WRAP
AZ_is_wrapped(m) ==
    /\ m["ADC_cal_ok"] # 0
    /\ m["ADC_az_now"] >= m["ADC_az_min"]
    /\ \/ m["ADC_az_now"] > m["ADC_az_max"]
       \/ (m["ADC_az_now"] - m["ADC_az_min"]) * (AZ_MOUNT_MAX - AZ_MOUNT_MIN)
              >= (AZ_MOUNT_WRAP - AZ_MOUNT_MIN) * (m["ADC_az_max"] - m["ADC_az_min"])

\* ------------------------------------------------------------------------
\* calibration file: one line per key, the value printed with %d
\* ------------------------------------------------------------------------
RECURSIVE FmtDec(_)
FmtDec(n) == IF n < 10 THEN <<n>> ELSE Append(FmtDec(n \div 10), n % 10)

RECURSIVE ScanDec(_)
ScanDec(ds) == IF ds = <<>> THEN 0
               ELSE 10 * ScanDec(SubSeq(ds, 1, Len(ds) - 1)) + ds[Len(ds)]

CalLines(azmin, azmax, elmin, elmax) ==
    << <<"ADC_az_min", FmtDec(azmin)>>, <<"ADC_az_max", FmtDec(azmax)>>,
       <<"ADC_el_min", FmtDec(elmin)>>, <<"ADC_el_max", FmtDec(elmax)>> >>

CalKeys == {"ADC_az_min", "ADC_az_max", "ADC_el_min", "ADC_el_max"}

\* ------------------------------------------------------------------------
\* micro-operations: <<kind, name, name, i, j>>
\* ------------------------------------------------------------------------
Set(name, v) == <<"set", name, "", v, 0>>
Pin(p, v) == <<"pin", "", "", p, v>>
Call(fn) == <<"call", fn, "", 0, 0>>
Copy(dst, src) == <<"copy", dst, src, 0, 0>>
SaveCal == <<"save", "", "", 0, 0>>
Usleep == <<"usleep", "MOTION_START_PERIOD", "", 0, 0>>
Seek(axis) == <<"seek", axis, "", 0, 0>>
CalSeek(lim) == <<"calseek", lim, "", 0, 0>>
Ret(code) == <<"ret", code, "", 0, 0>>
Op(kind) == <<kind, "", "", 0, 0>>
Tgt(axis, deg) == <<"tgt", axis, "", deg, 0>>

\* ------------------------------------------------------------------------
\* low-level rotation commands of the controller thread: the writes each
\* performs, in order, given the simulator mode it reads on entry
\* ------------------------------------------------------------------------
g5500_thread_az_stop(sim) ==
    (IF sim = SIM_OFF THEN <<Pin(PIN_AZ_CW, PIN_IDLE), Pin(PIN_AZ_CCW, PIN_IDLE)>> ELSE <<>>)
    \o <<Set("AZ_cmd_cw", 0), Set("AZ_cmd_ccw", 0)>>

g5500_thread_el_stop(sim) ==
    (IF sim = SIM_OFF THEN <<Pin(PIN_EL_UP, PIN_IDLE), Pin(PIN_EL_DOWN, PIN_IDLE)>> ELSE <<>>)
    \o <<Set("EL_cmd_up", 0), Set("EL_cmd_down", 0)>>

g5500_thread_rotate_cw(sim) ==
    (IF sim = SIM_OFF THEN <<Pin(PIN_AZ_CCW, PIN_IDLE), Pin(PIN_AZ_CW, PIN_ACTIVE)>> ELSE <<>>)
    \o <<Set("AZ_cmd_ccw", 0), Set("AZ_cmd_cw", 1)>>

\* variant: the sibling pin is driven active instead of idle
g5500_thread_rotate_ccw_both(sim) ==
    (IF sim = SIM_OFF THEN <<Pin(PIN_AZ_CW, PIN_ACTIVE), Pin(PIN_AZ_CCW, PIN_ACTIVE)>> ELSE <<>>)
    \o <<Set("AZ_cmd_cw", 0), Set("AZ_cmd_ccw", 1)>>

g5500_thread_rotate_ccw(sim) ==
    (IF sim = SIM_OFF THEN <<Pin(PIN_AZ_CW, PIN_IDLE), Pin(PIN_AZ_CCW, PIN_ACTIVE)>> ELSE <<>>)
    \o <<Set("AZ_cmd_cw", 0), Set("AZ_cmd_ccw", 1)>>

g5500_thread_rotate_down(sim) ==
    (IF sim = SIM_OFF THEN <<Pin(PIN_EL_UP, PIN_IDLE), Pin(PIN_EL_DOWN, PIN_ACTIVE)>> ELSE <<>>)
    \o <<Set("EL_cmd_up", 0), Set("EL_cmd_down", 1)>>

g5500_thread_rotate_up(sim) ==
    (IF sim = SIM_OFF THEN <<Pin(PIN_EL_DOWN, PIN_IDLE), Pin(PIN_EL_UP, PIN_ACTIVE)>> ELSE <<>>)
    \o <<Set("EL_cmd_down", 0), Set("EL_cmd_up", 1)>>

HelperBody(fn, sim) ==
    CASE fn = "az_stop" -> g5500_thread_az_stop(sim)
      [] fn = "el_stop" -> g5500_thread_el_stop(sim)
      [] fn = "rotate_cw" -> g5500_thread_rotate_cw(sim)
      [] fn = "rotate_ccw" -> g5500_thread_rotate_ccw(sim)
      [] fn = "rotate_down" -> g5500_thread_rotate_down(sim)
      [] fn = "rotate_up" -> g5500_thread_rotate_up(sim)

\* ------------------------------------------------------------------------
\* g5500_thread_capture_state
\* ------------------------------------------------------------------------
g5500_thread_capture_state_nostop(m) ==
    (IF m["AZ_cmd_cw"] # 0 THEN {"MOVING_AZ", "MOVING_RIGHT"} ELSE {})
    \cup (IF m["AZ_cmd_ccw"] # 0 THEN {"MOVING_AZ", "MOVING_LEFT"} ELSE {})
    \cup (IF m["EL_cmd_up"] # 0 THEN {"MOVING_EL", "MOVING_UP"} ELSE {})
    \cup (IF m["EL_cmd_down"] # 0 THEN {"MOVING_EL", "MOVING_DOWN"} ELSE {})
    \cup (IF m["g5500_thread_state"] \in {CTS_RUN} \cup CTS_CAL THEN {"BUSY"} ELSE {})

g5500_thread_capture_state(m) ==
    (IF m["AZ_cmd_cw"] # 0 THEN {"MOVING_AZ", "MOVING_RIGHT"} ELSE {})
    \cup (IF m["AZ_cmd_ccw"] # 0 THEN {"MOVING_AZ", "MOVING_LEFT"} ELSE {})
    \cup (IF m["EL_cmd_up"] # 0 THEN {"MOVING_EL", "MOVING_UP"} ELSE {})
    \cup (IF m["EL_cmd_down"] # 0 THEN {"MOVING_EL", "MOVING_DOWN"} ELSE {})
    \cup (IF AZ_isat_ccw_lim(m) THEN {"LIMIT_LEFT"} ELSE {})
    \cup (IF AZ_isat_cw_lim(m) THEN {"LIMIT_RIGHT"} ELSE {})
    \cup (IF EL_isat_down_lim(m) THEN {"LIMIT_DOWN"} ELSE {})
    \cup (IF EL_isat_up_lim(m) THEN {"LIMIT_UP"} ELSE {})
    \cup (IF AZ_is_wrapped(m) THEN {"OVERLAP_RIGHT"} ELSE {})
    \cup (IF m["g5500_thread_state"] \in {CTS_STOP, CTS_RUN} \cup CTS_CAL THEN {"BUSY"} ELSE {})

\* ------------------------------------------------------------------------
\* g5500_thread_read_axis_positions
\* ------------------------------------------------------------------------
\* real hardware: rd = [pok_ok, pok, az_ok, az, el_ok, el], the outcome of the
\* three readADC_SingleEnded calls
\* variant: a read that finds the power back and both axes readable returns
\* the thread to STOP
ReadReal_recovers(m, rd) ==
    IF ~rd.pok_ok THEN [m EXCEPT !["g5500_thread_state"] = CTS_ERR_ADC]
    ELSE IF rd.pok < ADC_MIN_POK THEN [m EXCEPT !["g5500_thread_state"] = CTS_ERR_NOPOWER]
    ELSE IF ~rd.az_ok THEN [m EXCEPT !["g5500_thread_state"] = CTS_ERR_ADC]
    ELSE IF ~rd.el_ok THEN [m EXCEPT !["ADC_az_now"] = rd.az,
                                     !["g5500_thread_state"] = CTS_ERR_ADC]
    ELSE [m EXCEPT !["ADC_az_now"] = rd.az, !["ADC_el_now"] = rd.el,
                   !["g5500_thread_state"] =
                       IF @ \in {CTS_ERR_ADC, CTS_ERR_NOPOWER} THEN CTS_STOP ELSE @]

ReadReal(m, rd) ==
    IF ~rd.pok_ok THEN [m EXCEPT !["g5500_thread_state"] = CTS_ERR_ADC]
    ELSE IF rd.pok < ADC_MIN_POK THEN [m EXCEPT !["g5500_thread_state"] = CTS_ERR_NOPOWER]
    ELSE IF ~rd.az_ok THEN [m EXCEPT !["g5500_thread_state"] = CTS_ERR_ADC]
    ELSE IF ~rd.el_ok THEN [m EXCEPT !["ADC_az_now"] = rd.az,
                                     !["g5500_thread_state"] = CTS_ERR_ADC]
    ELSE [m EXCEPT !["ADC_az_now"] = rd.az, !["ADC_el_now"] = rd.el]

\* variant: the step of a period of 100 ms
SimUp_halfperiod(now, speed, max, degs) ==
    LET n == (now * degs * 10 + speed * max) \div (degs * 10)
    IN  IF n > max THEN max ELSE n

\* simulator: now += speed*max/degs*period, truncated on the store to uint16_t
SimUp(now, speed, max, degs) ==
    LET n == (now * degs * 5 + speed * max) \div (degs * 5)
    IN  IF n > max THEN max ELSE n

SimDown(now, speed, max, degs) ==
    IF now * degs * 5 >= speed * max
    THEN (now * degs * 5 - speed * max) \div (degs * 5)
    ELSE 0

ReadSim(m) ==
    LET az == IF m["AZ_cmd_cw"] # 0
                 THEN SimUp(m["ADC_az_now"], AZ_SIM_SPEED, m["ADC_az_max"], AZ_MOUNT_MAX)
              ELSE IF m["AZ_cmd_ccw"] # 0
                 THEN SimDown(m["ADC_az_now"], AZ_SIM_SPEED, m["ADC_az_max"], AZ_MOUNT_MAX)
              ELSE m["ADC_az_now"]
        el == IF m["EL_cmd_up"] # 0
                 THEN SimUp(m["ADC_el_now"], EL_SIM_SPEED, m["ADC_el_max"], m["el_mount_max"])
              ELSE IF m["EL_cmd_down"] # 0
                 THEN SimDown(m["ADC_el_now"], EL_SIM_SPEED, m["ADC_el_max"], m["el_mount_max"])
              ELSE m["ADC_el_now"]
    IN  [m EXCEPT !["ADC_az_now"] = az, !["ADC_el_now"] = el]

\* one of the readADC_SingleEnded calls that are made returns < 0
ReadFails(m, rd) ==
    /\ m["g5500_sim_mode"] = SIM_OFF
    /\ \/ ~rd.pok_ok
       \/ rd.pok >= ADC_MIN_POK /\ (~rd.az_ok \/ ~rd.el_ok)

g5500_thread_read_axis_positions(m, rd) ==
    IF m["g5500_sim_mode"] = SIM_OFF THEN ReadReal(m, rd) ELSE ReadSim(m)

\* ------------------------------------------------------------------------
\* the stopped-detection update at the top of the controller loop
\* ------------------------------------------------------------------------
\* variant: a commanded axis counts as not moving whatever it reads
StallUpdate_anyread(m) ==
    LET az == IF AZ_cmd_active(m)
              THEN (IF m["ADC_az_n_equal"] < N_EQUAL_STOPPED
                    THEN m["ADC_az_n_equal"] + 1 ELSE m["ADC_az_n_equal"])
              ELSE 0
        el == IF EL_cmd_active(m)
              THEN (IF m["ADC_el_n_equal"] < N_EQUAL_STOPPED
                    THEN m["ADC_el_n_equal"] + 1 ELSE m["ADC_el_n_equal"])
              ELSE 0
    IN  [m EXCEPT !["ADC_az_n_equal"] = az, !["ADC_el_n_equal"] = el,
                  !["ADC_az_prev"] = m["ADC_az_now"],
                  !["ADC_el_prev"] = m["ADC_el_now"]]

\* variant: the counters are not capped
StallUpdate_nocap(m) ==
    [m EXCEPT !["ADC_az_n_equal"] =
                  IF AZ_cmd_active(m) /\ m["ADC_az_now"] = m["ADC_az_prev"]
                  THEN m["ADC_az_n_equal"] + 1 ELSE 0,
              !["ADC_el_n_equal"] =
                  IF EL_cmd_active(m) /\ m["ADC_el_now"] = m["ADC_el_prev"]
                  THEN m["ADC_el_n_equal"] + 1 ELSE 0,
              !["ADC_az_prev"] = m["ADC_az_now"],
              !["ADC_el_prev"] = m["ADC_el_now"]]

StallUpdate(m) ==
    LET az == IF AZ_cmd_active(m) /\ m["ADC_az_now"] = m["ADC_az_prev"]
              THEN (IF m["ADC_az_n_equal"] < N_EQUAL_STOPPED
                    THEN m["ADC_az_n_equal"] + 1 ELSE m["ADC_az_n_equal"])
              ELSE 0
        el == IF EL_cmd_active(m) /\ m["ADC_el_now"] = m["ADC_el_prev"]
              THEN (IF m["ADC_el_n_equal"] < N_EQUAL_STOPPED
                    THEN m["ADC_el_n_equal"] + 1 ELSE m["ADC_el_n_equal"])
              ELSE 0
    IN  [m EXCEPT !["ADC_az_n_equal"] = az, !["ADC_el_n_equal"] = el,
                  !["ADC_az_prev"] = m["ADC_az_now"],
                  !["ADC_el_prev"] = m["ADC_el_now"]]

\* ------------------------------------------------------------------------
\* the switch on g5500_thread_state: the statements of each case
\* ------------------------------------------------------------------------
\* variant: a moving azimuth axis is only stopped at a calibration limit
SeekAz_limits(m) ==
    IF AZ_is_stuck(m) THEN <<Call("az_stop"), Set("g5500_thread_state", CTS_ERR_STUCK)>>
    ELSE IF m["AZ_cmd_ccw"] # 0
         THEN (IF m["ADC_az_now"] <= m["ADC_az_min"] THEN <<Call("az_stop")>> ELSE <<>>)
    ELSE IF m["AZ_cmd_cw"] # 0
         THEN (IF m["ADC_az_now"] >= m["ADC_az_max"] THEN <<Call("az_stop")>> ELSE <<>>)
    ELSE IF m["ADC_az_now"] > m["ADC_az_target"] + ADC_AZ_DEADBAND THEN <<Call("rotate_ccw")>>
    ELSE IF m["ADC_az_now"] + ADC_AZ_DEADBAND < m["ADC_az_target"] THEN <<Call("rotate_cw")>>
    ELSE <<Call("az_stop")>>

\* variant: an idle azimuth axis is started whenever it is off the target
SeekAz_nodeadband(m) ==
    IF AZ_is_stuck(m) THEN <<Call("az_stop"), Set("g5500_thread_state", CTS_ERR_STUCK)>>
    ELSE IF m["AZ_cmd_ccw"] # 0
         THEN (IF m["ADC_az_now"] <= m["ADC_az_target"] THEN <<Call("az_stop")>> ELSE <<>>)
    ELSE IF m["AZ_cmd_cw"] # 0
         THEN (IF m["ADC_az_now"] >= m["ADC_az_target"] THEN <<Call("az_stop")>> ELSE <<>>)
    ELSE IF m["ADC_az_now"] > m["ADC_az_target"] THEN <<Call("rotate_ccw")>>
    ELSE IF m["ADC_az_now"] < m["ADC_az_target"] THEN <<Call("rotate_cw")>>
    ELSE <<Call("az_stop")>>

SeekAz(m) ==
    IF AZ_is_stuck(m) THEN <<Call("az_stop"), Set("g5500_thread_state", CTS_ERR_STUCK)>>
    ELSE IF m["AZ_cmd_ccw"] # 0
         THEN (IF m["ADC_az_now"] <= m["ADC_az_target"] THEN <<Call("az_stop")>> ELSE <<>>)
    ELSE IF m["AZ_cmd_cw"] # 0
         THEN (IF m["ADC_az_now"] >= m["ADC_az_target"] THEN <<Call("az_stop")>> ELSE <<>>)
    ELSE IF m["ADC_az_now"] > m["ADC_az_target"] + ADC_AZ_DEADBAND THEN <<Call("rotate_ccw")>>
    ELSE IF m["ADC_az_now"] + ADC_AZ_DEADBAND < m["ADC_az_target"] THEN <<Call("rotate_cw")>>
    ELSE <<Call("az_stop")>>

\* variant: a moving elevation axis is stopped once within the deadband
SeekEl_stopearly(m) ==
    IF EL_is_stuck(m) THEN <<Call("el_stop"), Set("g5500_thread_state", CTS_ERR_STUCK)>>
    ELSE IF m["EL_cmd_down"] # 0
         THEN (IF m["ADC_el_now"] <= m["ADC_el_target"] + ADC_EL_DEADBAND
               THEN <<Call("el_stop")>> ELSE <<>>)
    ELSE IF m["EL_cmd_up"] # 0
         THEN (IF m["ADC_el_now"] + ADC_EL_DEADBAND >= m["ADC_el_target"]
               THEN <<Call("el_stop")>> ELSE <<>>)
    ELSE IF m["ADC_el_now"] > m["ADC_el_target"] + ADC_EL_DEADBAND THEN <<Call("rotate_down")>>
    ELSE IF m["ADC_el_now"] + ADC_EL_DEADBAND < m["ADC_el_target"] THEN <<Call("rotate_up")>>
    ELSE <<Call("el_stop")>>

SeekEl(m) ==
    IF EL_is_stuck(m) THEN <<Call("el_stop"), Set("g5500_thread_state", CTS_ERR_STUCK)>>
    ELSE IF m["EL_cmd_down"] # 0
         THEN (IF m["ADC_el_now"] <= m["ADC_el_target"] THEN <<Call("el_stop")>> ELSE <<>>)
    ELSE IF m["EL_cmd_up"] # 0
         THEN (IF m["ADC_el_now"] >= m["ADC_el_target"] THEN <<Call("el_stop")>> ELSE <<>>)
    ELSE IF m["ADC_el_now"] > m["ADC_el_target"] + ADC_EL_DEADBAND THEN <<Call("rotate_down")>>
    ELSE IF m["ADC_el_now"] + ADC_EL_DEADBAND < m["ADC_el_target"] THEN <<Call("rotate_up")>>
    ELSE <<Call("el_stop")>>

\* variant: the minima are latched as soon as either axis is stuck
CalSeekMins_either(m) ==
    IF AZ_is_stuck(m) \/ EL_is_stuck(m)
    THEN <<Copy("ADC_az_min", "ADC_az_now"), Copy("ADC_el_min", "ADC_el_now"), Call("rotate_cw"), Call("rotate_up"),
           Set("g5500_thread_state", CTS_CAL_SEEK_MAXS), Usleep>>
    ELSE <<>>

CalSeekMins(m) ==
    IF AZ_is_stuck(m) /\ EL_is_stuck(m)
    THEN <<Copy("ADC_az_min", "ADC_az_now"), Copy("ADC_el_min", "ADC_el_now"), Call("rotate_cw"), Call("rotate_up"),
           Set("g5500_thread_state", CTS_CAL_SEEK_MAXS), Usleep>>
    ELSE <<>>

\* variant: the controller itself marks the calibration valid
CalSeekMaxs_marks(m) ==
    IF AZ_is_stuck(m) /\ EL_is_stuck(m)
    THEN <<Copy("ADC_az_max", "ADC_az_now"), Copy("ADC_el_max", "ADC_el_now"), SaveCal,
           Set("ADC_cal_ok", 1), Call("az_stop"), Call("el_stop"),
           Set("g5500_thread_state", CTS_STOP)>>
    ELSE <<>>

CalSeekMaxs(m) ==
    IF AZ_is_stuck(m) /\ EL_is_stuck(m)
    THEN <<Copy("ADC_az_max", "ADC_az_now"), Copy("ADC_el_max", "ADC_el_now"), SaveCal,
           Call("az_stop"), Call("el_stop"),
           Set("g5500_thread_state", CTS_STOP)>>
    ELSE <<>>

\* variant: the error states take no action
SwitchBody_errskip(s) ==
    CASE s = CTS_STOP -> <<Call("az_stop"), Call("el_stop")>>
      [] s = CTS_RUN -> <<Seek("az"), Seek("el")>>
      [] s = CTS_CAL_START -> <<Call("rotate_ccw"), Call("rotate_down"),
                                Set("g5500_thread_state", CTS_CAL_SEEK_MINS), Usleep>>
      [] s = CTS_CAL_SEEK_MINS -> <<CalSeek("mins")>>
      [] s = CTS_CAL_SEEK_MAXS -> <<CalSeek("maxs")>>
      [] s \in CTS_ERR -> <<>>

SwitchBody(s) ==
    CASE s = CTS_STOP -> <<Call("az_stop"), Call("el_stop")>>
      [] s = CTS_RUN -> <<Seek("az"), Seek("el")>>
      [] s = CTS_CAL_START -> <<Call("rotate_ccw"), Call("rotate_down"),
                                Set("g5500_thread_state", CTS_CAL_SEEK_MINS), Usleep>>
      [] s = CTS_CAL_SEEK_MINS -> <<CalSeek("mins")>>
      [] s = CTS_CAL_SEEK_MAXS -> <<CalSeek("maxs")>>
      [] s \in CTS_ERR -> <<Call("az_stop"), Call("el_stop")>>

g5500_save_cal_file_swapped(m) ==
    CalLines(m["ADC_az_max"], m["ADC_az_min"], m["ADC_el_max"], m["ADC_el_min"])

g5500_save_cal_file(m) ==
    CalLines(m["ADC_az_min"], m["ADC_az_max"], m["ADC_el_min"], m["ADC_el_max"])

\* ------------------------------------------------------------------------
\* the controller thread, g5500_control_thread
\* ------------------------------------------------------------------------
CtlVars == <<ctl_pc, ctl_todo, ticks>>
ApiVars == <<api_call, api_todo, api_ret, calls>>

\* the thread's first statements, before its loop
ThreadStart == <<Set("g5500_thread_state", CTS_STOP), Call("az_stop"), Call("el_stop")>>

\* top of the loop: read fresh positions; Reads is the set of outcomes the
\* three ADC channels can give
CtlRead(Reads, maxTicks) ==
    /\ ctl_pc = "read"
    /\ ticks < maxTicks
    /\ \E rd \in Reads :
          /\ mem' = g5500_thread_read_axis_positions(mem, rd)
          /\ hist' = [hist EXCEPT !.fail_tick = ReadFails(mem, rd), !.slept = 0]
    /\ ctl_pc' = "stall"
    /\ UNCHANGED <<gpio, cal_file, has_status, ctl_todo, ticks, ApiVars>>

CtlStall ==
    /\ ctl_pc = "stall"
    /\ mem' = StallUpdate(mem)
    /\ ctl_pc' = "capture"
    /\ UNCHANGED <<gpio, cal_file, has_status, ctl_todo, ticks, ApiVars, hist>>

CtlCapture ==
    /\ ctl_pc = "capture"
    /\ has_status' = g5500_thread_capture_state(mem)
    /\ ctl_pc' = "switch"
    /\ UNCHANGED <<mem, gpio, cal_file, ctl_todo, ticks, ApiVars, hist>>

CtlSwitch ==
    /\ ctl_pc = "switch"
    /\ ctl_todo' = SwitchBody(g5500_thread_state)
    /\ ctl_pc' = "body"
    /\ UNCHANGED <<mem, gpio, cal_file, has_status, ticks, ApiVars, hist>>

\* one operation of the statements of the current case
CtlExec ==
    /\ ctl_pc \in {"start", "body"}
    /\ ctl_todo # <<>>
    /\ LET op == Head(ctl_todo)
           rest == Tail(ctl_todo)
       IN  /\ ctl_todo' = CASE op[1] = "call" -> HelperBody(op[2], g5500_sim_mode) \o rest
                            [] op[1] = "seek" -> (IF op[2] = "az" THEN SeekAz(mem) ELSE SeekEl(mem)) \o rest
                            [] op[1] = "calseek" -> (IF op[2] = "mins" THEN CalSeekMins(mem)
                                                     ELSE CalSeekMaxs(mem)) \o rest
                            [] OTHER -> rest
           /\ mem' = CASE op[1] = "set" -> [mem EXCEPT ![op[2]] = op[4]]
                       [] op[1] = "copy" -> [mem EXCEPT ![op[2]] = mem[op[3]]]
                       [] OTHER -> mem
           /\ gpio' = IF op[1] = "pin" THEN [gpio EXCEPT ![op[4]] = op[5]] ELSE gpio
           /\ cal_file' = IF op[1] = "save" THEN g5500_save_cal_file(mem) ELSE cal_file
           /\ hist' = IF op[1] = "save" THEN [hist EXCEPT !.saves = @ + 1]
                      ELSE IF op = Set("g5500_thread_state", CTS_CAL_SEEK_MINS)
                           THEN [hist EXCEPT !.saves = 0]
                      ELSE IF op[1] = "usleep" THEN [hist EXCEPT !.slept = 0]
                      ELSE hist
    /\ UNCHANGED <<has_status, ctl_pc, ticks, ApiVars>>

\* usleep(THREAD_PERIOD) at the bottom of the loop, then the next iteration;
\* ticks counts the iterations up to cap
CtlLoop(cap) ==
    /\ ctl_pc \in {"start", "body"}
    /\ ctl_todo = <<>>
    /\ ctl_pc' = "read"
    /\ ticks' = IF ctl_pc = "body" /\ ticks < cap THEN ticks + 1 ELSE ticks
    /\ hist' = [hist EXCEPT !.fail_tick = FALSE]
    /\ UNCHANGED <<mem, gpio, cal_file, has_status, ctl_todo, ApiVars>>

\* ------------------------------------------------------------------------
\* the hamlib API functions, called by the main thread
\* ------------------------------------------------------------------------
\* variant: loss of rotator power is reported with the ADC failure code
g5500_check_thread_error_swapped(s) ==
    CASE s = CTS_ERR_ADC -> G5500_RIG_ERR_ADC
      [] s = CTS_ERR_NOPOWER -> G5500_RIG_ERR_ADC
      [] s = CTS_ERR_STUCK -> G5500_RIG_ERR_STUCK
      [] OTHER -> G5500_RIG_OK

g5500_check_thread_error(s) ==
    CASE s = CTS_ERR_ADC -> G5500_RIG_ERR_ADC
      [] s = CTS_ERR_NOPOWER -> G5500_RIG_ERR_NOPOWER
      [] s = CTS_ERR_STUCK -> G5500_RIG_ERR_STUCK
      [] OTHER -> G5500_RIG_OK

\* variant: the error is returned without telling the thread to stop
g5500_cal_ready_nostop(m, rest) ==
    IF g5500_check_thread_error(m["g5500_thread_state"]) # G5500_RIG_OK
    THEN <<Ret(g5500_check_thread_error(m["g5500_thread_state"]))>>
    ELSE IF m["ADC_cal_ok"] # 0 THEN rest
    ELSE <<Op("fopen")>> \o rest

\* g5500_cal_ready, entered with the operations `rest' of its caller pending
g5500_cal_ready(m, rest) ==
    IF g5500_check_thread_error(m["g5500_thread_state"]) # G5500_RIG_OK
    THEN <<Set("g5500_thread_state", CTS_STOP),
           Ret(g5500_check_thread_error(m["g5500_thread_state"]))>>
    ELSE IF m["ADC_cal_ok"] # 0 THEN rest
    ELSE <<Op("fopen")>> \o rest

\* variant: calibration is (re)started whatever the thread is doing
g5500_tell_thread_start_calibration_always(s) ==
    <<Set("g5500_thread_state", CTS_CAL_START), Ret(G5500_RIG_CALIBRATING)>>

\* g5500_tell_thread_start_calibration, then the return of g5500_cal_ready
g5500_tell_thread_start_calibration(s) ==
    IF s \in {CTS_STOP, CTS_RUN}
    THEN <<Set("g5500_thread_state", CTS_CAL_START), Ret(G5500_RIG_CALIBRATING)>>
    ELSE <<Ret(G5500_RIG_CALIBRATING)>>

\* variant: the file's values are accepted without the checks of the spans
g5500_read_cal_file_nosanity(lines, rest) ==
    IF lines = <<>> THEN <<Op("start_cal")>>
    ELSE [i \in 1..Len(lines) |-> Set(lines[i][1], ScanDec(lines[i][2]) % 65536)]
         \o (IF CalKeys \subseteq {lines[i][1] : i \in 1..Len(lines)}
             THEN <<Set("ADC_cal_ok", 1)>> \o rest
             ELSE <<Op("start_cal")>>)

\* g5500_read_cal_file on the lines it finds: each recognised line is stored
\* as it is read, the checks follow
g5500_read_cal_file(lines, rest) ==
    IF lines = <<>> THEN <<Op("start_cal")>>
    ELSE [i \in 1..Len(lines) |-> Set(lines[i][1], ScanDec(lines[i][2]) % 65536)]
         \o (IF CalKeys \subseteq {lines[i][1] : i \in 1..Len(lines)}
             THEN <<Op("sanity_az"), Op("sanity_el"), Set("ADC_cal_ok", 1)>> \o rest
             ELSE <<Op("start_cal")>>)

g5500_direct_set_position(m, az, el) ==
    <<Op("cal_ready")>>
    \o (IF az < AZ_MOUNT_MIN \/ az > AZ_MOUNT_MAX THEN <<Ret(G5500_RIG_ERR_BADARGS)>>
        ELSE IF el < EL_MOUNT_MIN \/ el > m["el_mount_max"] THEN <<Ret(G5500_RIG_ERR_BADARGS)>>
        ELSE <<Tgt("az", az), Tgt("el", el), Set("g5500_thread_state", CTS_RUN),
               Ret(G5500_RIG_OK)>>)

\* variant: the thread is told to stop before the position is returned
g5500_direct_get_position_stops ==
    <<Op("chk_err"), Op("cal_ready"), Set("g5500_thread_state", CTS_STOP), Op("getpos"),
      Ret(G5500_RIG_OK)>>

\* variant: no g5500_check_thread_error before g5500_cal_ready
g5500_direct_get_position_unchecked ==
    <<Op("cal_ready"), Op("getpos"), Ret(G5500_RIG_OK)>>

g5500_direct_get_position ==
    <<Op("chk_err"), Op("cal_ready"), Op("getpos"), Ret(G5500_RIG_OK)>>

\* variant: the axis that is not named is sent to its lower limit
g5500_direct_move_both(direction) ==
    <<Op("cal_ready")>>
    \o (CASE direction = ROT_MOVE_UP ->
                <<Copy("ADC_el_target", "ADC_el_max"), Copy("ADC_az_target", "ADC_az_min"),
                  Set("g5500_thread_state", CTS_RUN), Ret(G5500_RIG_OK)>>
          [] direction = ROT_MOVE_DOWN ->
                <<Copy("ADC_el_target", "ADC_el_min"), Copy("ADC_az_target", "ADC_az_min"),
                  Set("g5500_thread_state", CTS_RUN), Ret(G5500_RIG_OK)>>
          [] direction = ROT_MOVE_LEFT ->
                <<Copy("ADC_az_target", "ADC_az_min"), Copy("ADC_el_target", "ADC_el_min"),
                  Set("g5500_thread_state", CTS_RUN), Ret(G5500_RIG_OK)>>
          [] direction = ROT_MOVE_RIGHT ->
                <<Copy("ADC_az_target", "ADC_az_max"), Copy("ADC_el_target", "ADC_el_min"),
                  Set("g5500_thread_state", CTS_RUN), Ret(G5500_RIG_OK)>>
          [] OTHER -> <<Ret(G5500_RIG_ERR_BADARGS)>>)

\* variant: UP and DOWN take each other's limit
g5500_direct_move_swapped(direction) ==
    <<Op("cal_ready")>>
    \o (CASE direction = ROT_MOVE_UP ->
                <<Copy("ADC_el_target", "ADC_el_min"), Set("g5500_thread_state", CTS_RUN),
                  Ret(G5500_RIG_OK)>>
          [] direction = ROT_MOVE_DOWN ->
                <<Copy("ADC_el_target", "ADC_el_max"), Set("g5500_thread_state", CTS_RUN),
                  Ret(G5500_RIG_OK)>>
          [] direction = ROT_MOVE_LEFT ->
                <<Copy("ADC_az_target", "ADC_az_min"), Set("g5500_thread_state", CTS_RUN),
                  Ret(G5500_RIG_OK)>>
          [] direction = ROT_MOVE_RIGHT ->
                <<Copy("ADC_az_target", "ADC_az_max"), Set("g5500_thread_state", CTS_RUN),
                  Ret(G5500_RIG_OK)>>
          [] OTHER -> <<Ret(G5500_RIG_ERR_BADARGS)>>)

g5500_direct_move(direction) ==
    <<Op("cal_ready")>>
    \o (CASE direction = ROT_MOVE_UP ->
                <<Copy("ADC_el_target", "ADC_el_max"), Set("g5500_thread_state", CTS_RUN),
                  Ret(G5500_RIG_OK)>>
          [] direction = ROT_MOVE_DOWN ->
                <<Copy("ADC_el_target", "ADC_el_min"), Set("g5500_thread_state", CTS_RUN),
                  Ret(G5500_RIG_OK)>>
          [] direction = ROT_MOVE_LEFT ->
                <<Copy("ADC_az_target", "ADC_az_min"), Set("g5500_thread_state", CTS_RUN),
                  Ret(G5500_RIG_OK)>>
          [] direction = ROT_MOVE_RIGHT ->
                <<Copy("ADC_az_target", "ADC_az_max"), Set("g5500_thread_state", CTS_RUN),
                  Ret(G5500_RIG_OK)>>
          [] OTHER -> <<Ret(G5500_RIG_ERR_BADARGS)>>)

g5500_direct_park ==
    <<Op("cal_ready"), Tgt("az", AZ_MOUNT_PARK), Tgt("el", EL_MOUNT_PARK),
      Set("g5500_thread_state", CTS_RUN), Ret(G5500_RIG_OK)>>

g5500_direct_stop == <<Set("g5500_thread_state", CTS_STOP), Ret(G5500_RIG_OK)>>

g5500_sim_mode_set(type) ==
    (CASE type = SIM_AZONLY ->
            <<Set("g5500_sim_mode", SIM_AZONLY), Set("el_mount_max", 1), Set("caps_max_el", 0),
              Set("ADC_az_min", 0), Set("ADC_az_max", AZ_SIM_MAX_ADC),
              Set("ADC_el_min", 0), Set("ADC_el_max", EL_SIM_MAX_ADC), Set("ADC_cal_ok", 1)>>
       [] type = SIM_EL90 ->
            <<Set("g5500_sim_mode", SIM_EL90), Set("caps_max_el", 90), Set("el_mount_max", 90),
              Set("ADC_az_min", 0), Set("ADC_az_max", AZ_SIM_MAX_ADC),
              Set("ADC_el_min", 0), Set("ADC_el_max", EL_SIM_MAX_ADC \div 2), Set("ADC_cal_ok", 1)>>
       [] type = SIM_EL180 ->
            <<Set("g5500_sim_mode", SIM_EL180), Set("caps_max_el", 180), Set("el_mount_max", 180),
              Set("ADC_az_min", 0), Set("ADC_az_max", AZ_SIM_MAX_ADC),
              Set("ADC_el_min", 0), Set("ADC_el_max", EL_SIM_MAX_ADC), Set("ADC_cal_ok", 1)>>
       [] OTHER ->
            <<Set("g5500_sim_mode", SIM_OFF), Set("caps_max_el", EL_MOUNT_MAX),
              Set("el_mount_max", EL_MOUNT_MAX), Set("ADC_cal_ok", 0)>>)
    \o <<Set("g5500_thread_state", CTS_STOP),
         Set("AZ_cmd_cw", 0), Set("AZ_cmd_ccw", 0), Set("EL_cmd_up", 0), Set("EL_cmd_down", 0),
         Set("ADC_az_now", 0), Set("ADC_az_target", 0), Set("ADC_az_n_equal", 0),
         Set("ADC_el_now", 0), Set("ADC_el_target", 0), Set("ADC_el_n_equal", 0)>>

\* the handler of SIGINT, SIGHUP, SIGQUIT and SIGTERM: the stop entry of the
\* capabilities, usleep, exit
onAnyStopSignal ==
    <<Set("g5500_thread_state", CTS_STOP), Op("sig_usleep"), Ret("exit")>>

\* g5500_direct_set_conf (TOK_SIMULATOR)
g5500_direct_set_conf(type) == g5500_sim_mode_set(type) \o <<Ret(G5500_RIG_OK)>>

ApiBody(c, m) ==
    CASE c[1] = "set_position" -> g5500_direct_set_position(m, c[2], c[3])
      [] c[1] = "get_position" -> g5500_direct_get_position
      [] c[1] = "move" -> g5500_direct_move(c[2])
      [] c[1] = "park" -> g5500_direct_park
      [] c[1] = "stop" -> g5500_direct_stop
      [] c[1] = "set_conf" -> g5500_direct_set_conf(c[2])
      [] c[1] = "signal" -> onAnyStopSignal

\* observations: saves = calibration files written since the sweep in progress
\* began; of the API call in progress or last made: start = g5500_thread_state
\* on entry, reads = the values of g5500_thread_state its error checks read,
\* cal_seen = the value g5500_tell_thread_start_calibration read (-1: none),
\* wrote = the values it wrote to g5500_thread_state, tw = its writes to a
\* target, stop_tick = ticks when g5500_direct_stop wrote; prev_err = the call
\* before it was a get_position entered in an error state; prev_nopow = the
\* call before it was a set_position that returned NO_POWER; fail_tick = an ADC
\* read of the loop iteration in progress failed and no operation of an API
\* call has run since; az_new = the call has stored an azimuth target that
\* differs from the one it replaced; slept = the microseconds the controller
\* has spent in the usleep it is in, sig_slept = those the signal handler has
\* spent in its usleep (both advance only where time is modelled); rx = the
\* characters the rotctld client has sent that runRotator has not read, line =
\* the command line it sent last, replies = the replies runRotator has sent or
\* owes since that line was sent (all three only where the socket is modelled)
HistInit == [saves |-> 0, reads |-> <<>>, cal_seen |-> -1, wrote |-> <<>>, tw |-> 0,
             stop_tick |-> -1, start |-> -1, prev_err |-> FALSE,
             prev_nopow |-> FALSE, fail_tick |-> FALSE, az_new |-> FALSE,
             slept |-> 0, sig_slept |-> 0, rx |-> <<>>, line |-> <<>>, replies |-> 0]

ErrCodes == {G5500_RIG_ERR_ADC, G5500_RIG_ERR_NOPOWER, G5500_RIG_ERR_STUCK}

\* one operation of API call c: todo are its pending operations, h the
\* observations so far; a return that follows the operation completes in the
\* same step
ApiRun(c, todo, h) ==
    LET op == Head(todo)
        rest == Tail(todo)
        s == g5500_thread_state
        next == CASE op[1] = "chk_err" ->
                        (IF g5500_check_thread_error(s) # G5500_RIG_OK
                         THEN <<Ret(g5500_check_thread_error(s))>> ELSE rest)
                  [] op[1] = "cal_ready" -> g5500_cal_ready(mem, rest)
                  [] op[1] = "fopen" -> g5500_read_cal_file(cal_file, rest)
                  [] op[1] = "sanity_az" ->
                        (IF ADC_az_max < ADC_az_min + CAL_MIN_SPAN
                         THEN <<Op("start_cal")>> ELSE rest)
                  [] op[1] = "sanity_el" ->
                        (IF ADC_el_max < ADC_el_min + CAL_MIN_SPAN
                         THEN <<Op("start_cal")>> ELSE rest)
                  [] op[1] = "start_cal" -> g5500_tell_thread_start_calibration(s)
                  [] OTHER -> rest
        done == next # <<>> /\ Head(next)[1] = "ret"
        isT == op[2] \in {"ADC_az_target", "ADC_el_target"}
    IN  /\ api_call' = c
        /\ api_todo' = IF done THEN <<>> ELSE next
        /\ api_ret' = IF done THEN Head(next)[2] ELSE "pending"
        /\ mem' = CASE op[1] = "set" -> [mem EXCEPT ![op[2]] = op[4]]
                    [] op[1] = "copy" -> [mem EXCEPT ![op[2]] = mem[op[3]]]
                    [] op[1] = "tgt" /\ op[2] = "az" ->
                           [mem EXCEPT !["ADC_az_target"] = g5500_az_to_ADC(mem, op[4])]
                    [] op[1] = "tgt" /\ op[2] = "el" ->
                           [mem EXCEPT !["ADC_el_target"] = g5500_el_to_ADC(mem, op[4])]
                    [] OTHER -> mem
        /\ hist' = [h EXCEPT
               !.reads = IF op[1] \in {"chk_err", "cal_ready"} THEN Append(@, s) ELSE @,
               !.cal_seen = IF op[1] = "start_cal" THEN s ELSE @,
               !.wrote = IF op[1] = "set" /\ op[2] = "g5500_thread_state"
                         THEN Append(@, op[4]) ELSE @,
               !.tw = IF op[1] = "tgt" \/ (op[1] \in {"set", "copy"} /\ isT)
                      THEN @ + 1 ELSE @,
               !.stop_tick = IF c[1] = "stop" /\ op[1] = "set" THEN ticks ELSE @,
               !.fail_tick = FALSE,
               !.az_new = IF op[1] = "tgt" /\ op[2] = "az"
                          THEN g5500_az_to_ADC(mem, op[4]) # ADC_az_target ELSE @]
        /\ UNCHANGED <<gpio, cal_file, has_status, CtlVars>>

\* the main thread enters an API function and performs its first operation
ApiCall(Cs, maxCalls) ==
    /\ api_todo = <<>>
    /\ calls < maxCalls
    /\ calls' = calls + 1
    /\ \E c \in Cs :
          ApiRun(c, ApiBody(c, mem),
                 [hist EXCEPT !.reads = <<>>, !.cal_seen = -1, !.wrote = <<>>, !.tw = 0,
                              !.stop_tick = -1, !.az_new = FALSE,
                              !.start = g5500_thread_state,
                              !.prev_err = (api_call[1] = "get_position"
                                            /\ hist.start \in CTS_ERR),
                              !.prev_nopow = (api_call[1] = "set_position"
                                              /\ api_ret = G5500_RIG_ERR_NOPOWER)])

\* the next operation of the API function in progress
ApiExec ==
    /\ api_todo # <<>>
    /\ ApiRun(api_call, api_todo, hist)
    /\ UNCHANGED calls

\* ------------------------------------------------------------------------
\* environment: what the ADC can return, which files can be on disk, which
\* calls the clients make
\* ------------------------------------------------------------------------
AdcSamples == {100, 1200}
PokGood == ADC_MIN_POK
PokBad == ADC_MIN_POK - 1

GoodReads == {[pok_ok |-> TRUE, pok |-> PokGood, az_ok |-> TRUE, az |-> a,
               el_ok |-> TRUE, el |-> e] : a \in AdcSamples, e \in AdcSamples}

FaultReads ==
    { [pok_ok |-> FALSE, pok |-> 0, az_ok |-> TRUE, az |-> 100, el_ok |-> TRUE, el |-> 100],
      [pok_ok |-> TRUE, pok |-> PokBad, az_ok |-> TRUE, az |-> 100, el_ok |-> TRUE, el |-> 100],
      [pok_ok |-> TRUE, pok |-> PokGood, az_ok |-> FALSE, az |-> 100, el_ok |-> TRUE, el |-> 100],
      [pok_ok |-> TRUE, pok |-> PokGood, az_ok |-> TRUE, az |-> 100, el_ok |-> FALSE, el |-> 100] }

AllReads == GoodReads \cup FaultReads

SeqReads ==
    GoodReads \cup
    { [pok_ok |-> TRUE, pok |-> PokBad, az_ok |-> TRUE, az |-> 100, el_ok |-> TRUE, el |-> 100] }

SimReads ==
    { [pok_ok |-> TRUE, pok |-> PokGood, az_ok |-> TRUE, az |-> 100, el_ok |-> TRUE, el |-> 1200],
      [pok_ok |-> TRUE, pok |-> PokBad, az_ok |-> TRUE, az |-> 100, el_ok |-> TRUE, el |-> 100] }

NoFile == <<>>
GoodFile == CalLines(100, 1200, 100, 1200)
CalFiles == {NoFile, GoodFile}

AllCalls ==
    { <<"set_position", 450, 180>>, <<"get_position", 0, 0>>, <<"move", ROT_MOVE_LEFT, 0>>,
      <<"park", 0, 0>>, <<"stop", 0, 0>> }

SeqCalls ==
    { <<"set_position", 450, 180>>, <<"set_position", 0, 0>>, <<"get_position", 0, 0>>,
      <<"stop", 0, 0>> }

MixReads ==
    { [pok_ok |-> TRUE, pok |-> PokGood, az_ok |-> TRUE, az |-> 1200, el_ok |-> TRUE, el |-> 1200] }

MixCalls == { <<"set_position", 450, 180>>, <<"set_conf", SIM_EL180, 0>> }

ArgCalls ==
    { <<"set_conf", t, 0>> : t \in {SIM_OFF, SIM_AZONLY, SIM_EL90, SIM_EL180} }
    \cup { <<"set_position", -1, 0>>, <<"set_position", 451, 0>>, <<"set_position", 0, -1>>,
           <<"set_position", 0, 1>>, <<"set_position", 0, 91>>, <<"set_position", 0, 181>>,
           <<"set_position", 450, 180>>, <<"set_position", 450, 90>> }
    \cup { <<"move", d, 0>> : d \in {ROT_MOVE_UP, ROT_MOVE_DOWN, ROT_MOVE_LEFT, ROT_MOVE_RIGHT, 0} }

LiveCalls ==
    { <<"set_conf", SIM_EL180, 0>>, <<"set_conf", SIM_AZONLY, 0>>,
      <<"set_position", 90, 45>>, <<"set_position", 20, 10>>, <<"set_position", 0, 0>> }

SigCalls == { <<"set_position", 0, 0>>, <<"signal", 0, 0>> }

SimCalls ==
    AllCalls \cup { <<"set_conf", SIM_OFF, 0>>, <<"set_conf", SIM_EL180, 0>> }

\* ------------------------------------------------------------------------
\* initial state: g5500_direct_rot_init on a Raspberry Pi has returned and
\* the controller thread is about to execute its first statement
\* ------------------------------------------------------------------------
MemInit == [n \in MemNames |->
               IF n \in {"el_mount_max", "caps_max_el"} THEN EL_MOUNT_MAX ELSE 0]

InitWith(Files) ==
    /\ mem = MemInit
    /\ gpio = [p \in Pins |-> PIN_IDLE]    \* the output latches at their reset level
    /\ cal_file \in Files
    /\ has_status = {}
    /\ ctl_pc = "start"
    /\ ctl_todo = ThreadStart
    /\ ticks = 0
    /\ api_call = <<"none", 0, 0>>
    /\ api_todo = <<>>
    /\ api_ret = "none"
    /\ calls = 0
    /\ hist = HistInit

Init == InitWith(CalFiles)

\* the controller: it starts an iteration while ticks < maxTicks
Controller(Reads, maxTicks, cap) ==
    \/ CtlRead(Reads, maxTicks)
    \/ CtlStall
    \/ CtlCapture
    \/ CtlSwitch
    \/ CtlExec
    \/ CtlLoop(cap)

Next ==
    \/ Controller(AllReads, MaxTicks, MaxTicks)
    \/ ApiCall(AllCalls, MaxCalls)
    \/ ApiExec

Spec == Init /\ [][Next]_vars

\* the same two threads when the clients also switch the simulator mode
NextSim ==
    \/ Controller(SimReads, MaxSimTicks, MaxSimTicks)
    \/ ApiCall(SimCalls, MaxSimCalls)
    \/ ApiExec

SpecSim == Init /\ [][NextSim]_vars

\* runs in which every API call falls wholly within the controller's sleep
\* between two loop iterations
NextSeq ==
    \/ api_todo = <<>> /\ Controller(SeqReads, SeqTickCap + 1, SeqTickCap)
    \/ ctl_pc = "read" /\ ApiCall(SeqCalls, MaxSeqCalls)
    \/ ctl_pc = "read" /\ ApiExec

SpecSeq == Init /\ [][NextSeq]_vars

\* runs in which set_conf may fall anywhere in a loop iteration while every
\* other API call falls within the controller's sleep
NextMix ==
    \/ (api_todo = <<>> \/ api_call[1] = "set_conf")
          /\ Controller(MixReads, MaxMixTicks, MaxMixTicks)
    \/ ApiCall({c \in MixCalls : c[1] = "set_conf" \/ ctl_pc = "read"}, MaxMixCalls)
    \/ (api_call[1] = "set_conf" \/ ctl_pc = "read") /\ ApiExec

SpecMix == Init /\ [][NextMix]_vars

\* runs in which every API call falls within the controller's sleep, with the
\* calls that take arguments given values on both sides of each limit
NextArgs ==
    \/ api_todo = <<>> /\ Controller(GoodReads, MaxArgTicks, MaxArgTicks)
    \/ ctl_pc = "read" /\ ApiCall(ArgCalls, MaxArgCalls)
    \/ ctl_pc = "read" /\ ApiExec

SpecArgs == Init /\ [][NextArgs]_vars

\* both threads keep running, every API call falling within the controller's
\* sleep between two loop iterations: the controller loops for ever, an API
\* call that has been entered runs to its return; the clients may stop
\* calling.  The iteration counter saturates, so the simulated axes run to
\* their targets.
ControllerLive == api_todo = <<>> /\ Controller(MixReads, LiveTickCap + 1, LiveTickCap)

ApiLive == ctl_pc = "read" /\ ApiExec

NextLive ==
    \/ ControllerLive
    \/ ctl_pc = "read" /\ ApiCall(LiveCalls, MaxLiveCalls)
    \/ ApiLive

SpecLive == Init /\ [][NextLive]_vars /\ WF_vars(ControllerLive) /\ WF_vars(ApiLive)

\* the conversions applied to every count of a calibrated range: the client
\* reads the azimuth of a count with get_position and passes it back to
\* set_position, which makes it the target
ConvMins == {0, 100}
ConvSpans == {CAL_MIN_SPAN, 1100, MaxConvSpan, AZ_SIM_MAX_ADC}

InitConv ==
    /\ \E lo \in ConvMins, sp \in ConvSpans :
          mem = [MemInit EXCEPT !["ADC_cal_ok"] = 1,
                                !["ADC_az_min"] = lo, !["ADC_az_max"] = lo + sp,
                                !["ADC_el_min"] = lo, !["ADC_el_max"] = lo + sp]
    /\ gpio = [p \in Pins |-> PIN_IDLE]
    /\ cal_file = NoFile
    /\ has_status = {}
    /\ ctl_pc = "start"
    /\ ctl_todo = ThreadStart
    /\ ticks = 0
    /\ api_call = <<"none", 0, 0>>
    /\ api_todo = <<>>
    /\ api_ret = "none"
    /\ calls = 0
    /\ hist = HistInit

AzRoundTrip ==
    /\ api_call[1] = "none"
    /\ \E c \in ADC_az_min .. ADC_az_max :
          /\ api_call' = <<"az_round_trip", c, 0>>
          /\ mem' = [mem EXCEPT
                        !["ADC_az_now"] = c,
                        !["ADC_az_target"] =
                            g5500_az_to_ADC_float(mem, g5500_ADC_to_az(mem, c))]
    /\ UNCHANGED <<gpio, cal_file, has_status, CtlVars, api_todo, api_ret, calls, hist>>

NextConv == AzRoundTrip

SpecConv == InitConv /\ [][NextConv]_vars

\* runs that count the iterations since a set_position returned: calls fall
\* within the controller's sleep, the iterations before the set_position are
\* not counted and no call follows it
RunCalls == { <<"set_conf", SIM_EL180, 0>>, <<"set_position", 90, 45>> }

NextRun ==
    \/ (api_todo = <<>> /\ api_call[1] # "set_position")
          /\ Controller(MixReads, 1, 0)
    \/ (api_todo = <<>> /\ api_call[1] = "set_position")
          /\ Controller(MixReads, MaxRunTicks, MaxRunTicks)
    \/ (ctl_pc = "read" /\ api_call[1] # "set_position")
          /\ ApiCall(RunCalls, MaxRunCalls)
    \/ ctl_pc = "read" /\ ApiExec

SpecRun == Init /\ [][NextRun]_vars

\* runs with time: the controller leaves usleep(THREAD_PERIOD) and
\* usleep(MOTION_START_PERIOD) when that much time has passed, the signal
\* handler leaves its usleep likewise, and exit ends both threads.  Time
\* passes in steps of the handler's sleep, while the controller is in a usleep
\* that has not run out and the main thread is idle or in the handler's usleep
\* that has not run out; every other step takes no time.
CtlSleepsFor ==
    IF ctl_pc = "read" THEN (IF ticks = 0 THEN 0 ELSE THREAD_PERIOD)
    ELSE IF ctl_todo # <<>> /\ Head(ctl_todo) = Usleep THEN MOTION_START_PERIOD
    ELSE 0

SigSleeping == api_todo # <<>> /\ Head(api_todo)[1] = "sig_usleep"

Exited == api_ret = "exit"

TimePasses ==
    /\ ~Exited
    /\ hist.slept < CtlSleepsFor
    /\ api_todo = <<>> \/ (SigSleeping /\ hist.sig_slept < STOP_SIGNAL_USLEEP)
    /\ hist' = [hist EXCEPT !.slept = @ + STOP_SIGNAL_USLEEP,
                            !.sig_slept = IF SigSleeping THEN @ + STOP_SIGNAL_USLEEP ELSE @]
    /\ UNCHANGED <<mem, gpio, cal_file, has_status, CtlVars, ApiVars>>

NextSig ==
    \/ (~Exited /\ hist.slept >= CtlSleepsFor)
          /\ Controller(MixReads, MaxSigTicks, MaxSigTicks)
    \/ ~Exited /\ ApiCall(SigCalls, MaxSigCalls)
    \/ (~SigSleeping \/ hist.sig_slept >= STOP_SIGNAL_USLEEP) /\ ApiExec
    \/ TimePasses

SpecSig == Init /\ [][NextSig]_vars

\* runs in which a motion is stopped and an axis is then moved by direction:
\* calls fall within the controller's sleep, the mount stands at its upper
\* limits
MaxMoveTicks == 3
MaxMoveCalls == 3
MoveCalls ==
    { <<"set_position", 90, 45>>, <<"stop", 0, 0>>,
      <<"move", ROT_MOVE_UP, 0>>, <<"move", ROT_MOVE_LEFT, 0>> }

NextMove ==
    \/ api_todo = <<>> /\ Controller(MixReads, MaxMoveTicks, MaxMoveTicks)
    \/ ctl_pc = "read" /\ ApiCall(MoveCalls, MaxMoveCalls)
    \/ ctl_pc = "read" /\ ApiExec

SpecMove == Init /\ [][NextMove]_vars

\* runs with a whole calibration sweep: a call is entered within the
\* controller's sleep or, while the thread is in a calibration state, anywhere
\* in a loop iteration, and the controller runs on during a call while the
\* thread is in a calibration state; the mount is fast and has its lower limits
\* at 100 and its upper limits at 600 or at 1200: an axis driven right or up
\* is read at its upper limit, any other at its lower limit; the calibration
\* file is absent or holds a range that is too narrow; the loop iterations are
\* not counted
MaxCalCalls == 2
CalReads ==
    { [pok_ok |-> TRUE, pok |-> PokGood,
       az_ok |-> TRUE, az |-> IF AZ_cmd_cw # 0 THEN hi ELSE 100,
       el_ok |-> TRUE, el |-> IF EL_cmd_up # 0 THEN hi ELSE 100] : hi \in {600, 1200} }
NarrowFile == CalLines(500, 600, 500, 600)
CalCalls ==
    { <<"set_position", 450, 180>>, <<"get_position", 0, 0>>, <<"move", ROT_MOVE_LEFT, 0>>,
      <<"park", 0, 0>> }

NextCal ==
    \/ (api_todo = <<>> \/ g5500_thread_state \in CTS_CAL)
          /\ Controller(CalReads, 1, 0)
    \/ (ctl_pc = "read" \/ g5500_thread_state \in CTS_CAL) /\ ApiCall(CalCalls, MaxCalCalls)
    \/ ApiExec

InitCal == InitWith({NoFile, NarrowFile})

\* the same runs with every call within the controller's sleep
NextCalSeq ==
    \/ api_todo = <<>> /\ Controller(CalReads, 1, 0)
    \/ ctl_pc = "read" /\ ApiCall(CalCalls, MaxCalCalls)
    \/ ctl_pc = "read" /\ ApiExec

SpecCalSeq == InitCal /\ [][NextCalSeq]_vars

SpecCal == InitCal /\ [][NextCal]_vars

\* ------------------------------------------------------------------------
\* the rotctld socket: a client sends command lines and runRotator, called
\* while unread characters wait on the unbuffered stream, reads one message,
\* cracks it and replies.  Characters are one-character strings.
\* ------------------------------------------------------------------------
sizeof_buf == 100
MaxCmdCalls == 2

NL == <<"\n">>
cmd_get_pos == <<"\\", "g", "e", "t", "_", "p", "o", "s">>
cmd_set_pos == <<"\\", "s", "e", "t", "_", "p", "o", "s">>
cmd_move == <<"\\", "m", "o", "v", "e">>
cmd_park == <<"\\", "p", "a", "r", "k">>
cmd_stop == <<"\\", "s", "t", "o", "p">>
cmd_get_info == <<"\\", "g", "e", "t", "_", "i", "n", "f", "o">>
cmd_dump_caps == <<"\\", "d", "u", "m", "p", "_", "c", "a", "p", "s">>
cmd_dump_state == <<"\\", "d", "u", "m", "p", "_", "s", "t", "a", "t", "e">>

\* the single-letter, \long-name and +\long-name form of a command followed by
\* its arguments, each as one newline-terminated line, with the call it names
CmdForms(letter, long, args, call) ==
    { <<f \o args \o NL, call>> : f \in {<<letter>>, long, <<"+">> \o long} }

\* the commands of the program header with the arguments of the examples
rotctld_commands ==
    CmdForms("p", cmd_get_pos, <<>>, <<"get_position", 0, 0>>)
      \cup CmdForms("P", cmd_set_pos, <<" ", "2", "0", " ", "3", "0">>,
                    <<"set_position", 20, 30>>)
      \cup CmdForms("M", cmd_move, <<" ", "8", " ", "0">>, <<"move", ROT_MOVE_LEFT, 0>>)
      \cup CmdForms("K", cmd_park, <<>>, <<"park", 0, 0>>)
      \cup CmdForms("S", cmd_stop, <<>>, <<"stop", 0, 0>>)
      \cup CmdForms("_", cmd_get_info, <<>>, <<"get_info", 0, 0>>)
      \cup CmdForms("1", cmd_dump_caps, <<>>, <<"dump_caps", 0, 0>>)

punctOk(p) == p \in {"+", ";", "|", ","}

\* the reading loop of runRotator: buf so far and the unread stream s give
\* <<buf, unread stream>>; a p or an S ends the message
RECURSIVE ReadMessage(_, _)
ReadMessage(buf, s) ==
    IF ~(Len(buf) < sizeof_buf - 1) \/ s = <<>> THEN <<buf, s>>
    ELSE IF Head(s) \in {"p", "S"}
         THEN <<(IF buf = <<>> THEN <<Head(s)>> ELSE buf) \o NL, Tail(s)>>
    ELSE IF Head(s) \in {"\n", "\r"} THEN <<buf, Tail(s)>>
    ELSE ReadMessage(Append(buf, Head(s)), Tail(s))

\* buf[strlen(buf)-1] = '\0'
TrimNewline(buf) == IF buf = <<>> THEN <<>> ELSE SubSeq(buf, 1, Len(buf) - 1)

\* sscanf: white space, and one %g or %d conversion of an unsigned whole
\* number as <<converted, value, rest>>
DigitChars == <<"0", "1", "2", "3", "4", "5", "6", "7", "8", "9">>
IsDigit(c) == \E k \in 1..Len(DigitChars) : DigitChars[k] = c
DigitVal(c) == (CHOOSE k \in 1..Len(DigitChars) : DigitChars[k] = c) - 1

RECURSIVE SkipSpace(_)
SkipSpace(s) ==
    IF s # <<>> /\ Head(s) \in {" ", "\t", "\n", "\r"} THEN SkipSpace(Tail(s)) ELSE s

RECURSIVE ScanDigits(_, _)
ScanDigits(s, v) ==
    IF s # <<>> /\ IsDigit(Head(s))
    THEN ScanDigits(Tail(s), 10 * v + DigitVal(Head(s))) ELSE <<v, s>>

ScanNum(s) ==
    LET t == SkipSpace(s)
    IN  IF t # <<>> /\ IsDigit(Head(t))
        THEN <<TRUE, ScanDigits(t, 0)[1], ScanDigits(t, 0)[2]>> ELSE <<FALSE, 0, t>>

\* sscanf (buf, "<lit> %g %g", &x, &y): <<conversions made, x, y>>
sscanf2(buf, lit) ==
    IF Len(buf) < Len(lit) \/ SubSeq(buf, 1, Len(lit)) # lit THEN <<0, 0, 0>>
    ELSE LET x == ScanNum(SubSeq(buf, Len(lit) + 1, Len(buf)))
             y == ScanNum(x[3])
         IN  IF ~x[1] THEN <<0, 0, 0>>
             ELSE IF ~y[1] THEN <<1, x[2], 0>> ELSE <<2, x[2], y[2]>>

\* the chain of comparisons of runRotator: the call the message buf makes
CrackCommand(buf) ==
    LET buf1 == IF buf = <<>> THEN <<>> ELSE Tail(buf)
        ext == buf # <<>> /\ punctOk(Head(buf))
        is(letter, long) == buf = <<letter>> \/ buf = long \/ (buf1 = long /\ ext)
        P == sscanf2(buf, <<"P">>)
        set_pos == sscanf2(buf, cmd_set_pos)
        xset_pos == sscanf2(buf1, cmd_set_pos)
        M == sscanf2(buf, <<"M">>)
        move == sscanf2(buf, cmd_move)
        xmove == sscanf2(buf1, cmd_move)
    IN  IF is("p", cmd_get_pos) THEN <<"get_position", 0, 0>>
        ELSE IF P[1] = 2 THEN <<"set_position", P[2], P[3]>>
        ELSE IF set_pos[1] = 2 THEN <<"set_position", set_pos[2], set_pos[3]>>
        ELSE IF xset_pos[1] = 2 /\ ext THEN <<"set_position", xset_pos[2], xset_pos[3]>>
        ELSE IF M[1] = 2 THEN <<"move", M[2], M[3]>>
        ELSE IF move[1] = 2 THEN <<"move", move[2], move[3]>>
        ELSE IF xmove[1] = 2 /\ ext THEN <<"move", xmove[2], xmove[3]>>
        ELSE IF is("K", cmd_park) THEN <<"park", 0, 0>>
        ELSE IF is("S", cmd_stop) THEN <<"stop", 0, 0>>
        ELSE IF is("_", cmd_get_info) THEN <<"get_info", 0, 0>>
        ELSE IF is("1", cmd_dump_caps) THEN <<"dump_caps", 0, 0>>
        ELSE IF is("2", cmd_dump_state) THEN <<"dump_state", 0, 0>>
        ELSE <<"unrecognized", 0, 0>>

g5500_direct_get_info == "Yaesu G5500 on RPi"

\* the client sends one command line when the stream is empty
ClientSends ==
    /\ api_call[1] # "abort"
    /\ api_todo = <<>>
    /\ hist.rx = <<>>
    /\ calls < MaxCmdCalls
    /\ \E e \in rotctld_commands :
          hist' = [hist EXCEPT !.rx = e[1], !.line = e[1], !.replies = 0]
    /\ UNCHANGED <<mem, gpio, cal_file, has_status, CtlVars, ApiVars>>

\* runRotator: get_position, set_position, move, park and stop go through the
\* capability, whose return is the reply; get_info, dump_caps and an
\* unrecognized message reply at once.  The trim of an empty message writes
\* the byte before buf: the run goes on with the empty message or is aborted.
runRotator ==
    /\ api_call[1] # "abort"
    /\ api_todo = <<>>
    /\ hist.rx # <<>>
    /\ LET r == ReadMessage(<<>>, hist.rx)
           c == CrackCommand(TrimNewline(r[1]))
           h == [hist EXCEPT !.rx = r[2], !.replies = @ + 1,
                             !.reads = <<>>, !.cal_seen = -1, !.wrote = <<>>, !.tw = 0,
                             !.stop_tick = -1, !.az_new = FALSE,
                             !.start = g5500_thread_state]
           reply(ret) ==
               /\ api_call' = c
               /\ api_ret' = ret
               /\ hist' = h
               /\ UNCHANGED <<mem, gpio, cal_file, has_status, CtlVars, api_todo>>
       IN  /\ calls' = calls + 1
           /\ \/ /\ c[1] \in {"get_position", "set_position", "move", "park", "stop"}
                 /\ ApiRun(c, ApiBody(c, mem), h)
              \/ c[1] = "get_info" /\ reply(g5500_direct_get_info)
              \/ c[1] \in {"dump_caps", "dump_state"} /\ reply(G5500_RIG_OK)
              \/ c[1] = "unrecognized" /\ reply("RPRT -RIG_EINVAL")
              \/ /\ r[1] = <<>>
                 /\ api_call' = <<"abort", 0, 0>>
                 /\ api_ret' = "none"
                 /\ hist' = [hist EXCEPT !.rx = r[2]]
                 /\ UNCHANGED <<mem, gpio, cal_file, has_status, CtlVars, api_todo>>

NextCmd == ClientSends \/ runRotator \/ ApiExec

SpecCmd == Init /\ [][NextCmd]_vars

\* ------------------------------------------------------------------------
\* properties
\* ------------------------------------------------------------------------

C2_IdleAtTickEnd ==
    (ctl_pc = "body" /\ ctl_todo = <<>> /\ g5500_thread_state \in {CTS_STOP} \cup CTS_ERR)
    => /\ AZ_cmd_cw = 0 /\ AZ_cmd_ccw = 0 /\ EL_cmd_up = 0 /\ EL_cmd_down = 0
       /\ \A p \in Pins : gpio[p] = PIN_IDLE

\* C3 (as stated): when g5500_direct_stop has written STOP while the thread was
\* in RUN or in a calibration state and no API call follows, then once two
\* further loop iterations have ended (the one in progress and the next) all
\* direction flags are 0 and all pins are idle.
C3_StopObserved ==
    ( /\ api_call[1] = "stop" /\ api_todo = <<>>
      /\ hist.start \in {CTS_RUN} \cup CTS_CAL
      /\ ctl_pc = "read"
      /\ ticks >= hist.stop_tick + 2 )
    => /\ AZ_cmd_cw = 0 /\ AZ_cmd_ccw = 0 /\ EL_cmd_up = 0 /\ EL_cmd_down = 0
       /\ \A p \in Pins : gpio[p] = PIN_IDLE

\* C4 (as stated): g5500_thread_state leaves the error states only in a step
\* of set_position, move, park or get_position.
C4_OnlyMotionOrGetPosClears ==
    [][ (g5500_thread_state \in CTS_ERR /\ g5500_thread_state' \notin CTS_ERR)
        => /\ api_call' # api_call \/ api_todo' # api_todo
           /\ api_call'[1] \in {"set_position", "move", "park", "get_position"} ]_vars

\* C5 (as stated): a get_position entered in an error state clears the error
\* in that same call.
C5_ClearsInSameCall ==
    [][ (calls' = calls + 1 /\ api_call'[1] = "get_position"
         /\ g5500_thread_state \in CTS_ERR)
        => g5500_thread_state' \notin CTS_ERR ]_vars

\* C5 (amended): a get_position entered in an error state does not clear it:
\* the get_position that follows it returns an error code again and writes
\* nothing to g5500_thread_state.
C5_ErrorStaysLatched ==
    (api_call[1] = "get_position" /\ api_todo = <<>> /\ hist.prev_err)
    => (api_ret \in ErrCodes /\ hist.wrote = <<>> /\ g5500_thread_state \in CTS_ERR)

\* a second get_position in a row has reported the error
C5_Witness ==
    /\ api_call[1] = "get_position" /\ api_todo = <<>>
    /\ hist.prev_err
    /\ api_ret \in ErrCodes

\* C6: a get_position entered while g5500_thread_state is an error state
\* returns at once with the code of that state and changes none of the shared
\* scalars, however many calls came before it.
C6_GetPositionReportsError ==
    [][ (calls' = calls + 1 /\ api_call'[1] = "get_position"
         /\ g5500_thread_state \in CTS_ERR)
        => /\ api_todo' = <<>>
           /\ g5500_thread_state = CTS_ERR_ADC => api_ret' = G5500_RIG_ERR_ADC
           /\ g5500_thread_state = CTS_ERR_NOPOWER => api_ret' = G5500_RIG_ERR_NOPOWER
           /\ g5500_thread_state = CTS_ERR_STUCK => api_ret' = G5500_RIG_ERR_STUCK
           /\ mem' = mem ]_vars

\* the second API call is a get_position that reported the loss of power,
\* which is still latched
C6_Witness ==
    /\ calls >= 2
    /\ api_call[1] = "get_position" /\ api_todo = <<>>
    /\ hist.start = CTS_ERR_NOPOWER
    /\ api_ret = G5500_RIG_ERR_NOPOWER
    /\ g5500_thread_state = CTS_ERR_NOPOWER

C8_AlwaysCalibrating ==
    ( /\ api_call[1] \in {"set_position", "move", "park", "get_position"}
      /\ api_todo = <<>>
      /\ cal_file = NoFile /\ ADC_cal_ok = 0 )
    => api_ret = G5500_RIG_CALIBRATING

\* C8 (amended): with no calibration file and calibration invalid, a
\* set_position, move, park or get_position returns an error code when its
\* last error check read an error state, and CALIBRATING otherwise; it writes
\* CAL_START when g5500_tell_thread_start_calibration read STOP or RUN and
\* nothing when it read another state (a calibration already under way).
C8_CalibratingUnlessError ==
    ( /\ api_call[1] \in {"set_position", "move", "park", "get_position"}
      /\ api_todo = <<>>
      /\ cal_file = NoFile /\ ADC_cal_ok = 0 )
    => IF hist.reads[Len(hist.reads)] \in CTS_ERR
       THEN api_ret \in ErrCodes /\ hist.cal_seen = -1
       ELSE /\ api_ret = G5500_RIG_CALIBRATING
            /\ hist.cal_seen \in {CTS_STOP, CTS_RUN} => hist.wrote = <<CTS_CAL_START>>
            /\ hist.cal_seen \notin {CTS_STOP, CTS_RUN} => hist.wrote = <<>>
            /\ hist.tw = 0

\* a call made while the sweep is seeking the minima has returned CALIBRATING
\* without restarting it
C8_Witness ==
    /\ api_call[1] \in {"set_position", "move", "park", "get_position"}
    /\ api_todo = <<>>
    /\ cal_file = NoFile
    /\ calls >= 2
    /\ hist.cal_seen = CTS_CAL_SEEK_MINS
    /\ api_ret = G5500_RIG_CALIBRATING

C11_ValidSpans ==
    ADC_cal_ok # 0
    => (ADC_az_max - ADC_az_min >= CAL_MIN_SPAN /\ ADC_el_max - ADC_el_min >= CAL_MIN_SPAN)

\* C12 (as stated): a set_position that got past g5500_cal_ready (calibration
\* valid, no error) returns BAD_ARGS exactly when az is outside 0..450 or el
\* is outside 0..max_el, the maximum elevation published in the capabilities.
C12_BadArgsIff ==
    ( /\ api_call[1] = "set_position" /\ api_todo = <<>>
      /\ api_ret \in {G5500_RIG_OK, G5500_RIG_ERR_BADARGS} )
    => ( api_ret = G5500_RIG_ERR_BADARGS
         <=> ( \/ api_call[2] < AZ_MOUNT_MIN \/ api_call[2] > AZ_MOUNT_MAX
               \/ api_call[3] < EL_MOUNT_MIN \/ api_call[3] > caps_max_el ) )

\* C13: a move that got past g5500_cal_ready (calibration valid, no error)
\* returns OK for UP, DOWN, LEFT, RIGHT, having written RUN and exactly one
\* target, which equals ADC_el_max, ADC_el_min, ADC_az_min, ADC_az_max
\* respectively; for any other direction it returns BAD_ARGS and has written
\* neither a target nor g5500_thread_state.
C13_MoveToLimit ==
    ( /\ api_call[1] = "move" /\ api_todo = <<>>
      /\ api_ret \in {G5500_RIG_OK, G5500_RIG_ERR_BADARGS} )
    => IF api_call[2] \in {ROT_MOVE_UP, ROT_MOVE_DOWN, ROT_MOVE_LEFT, ROT_MOVE_RIGHT}
       THEN /\ api_ret = G5500_RIG_OK
            /\ hist.tw = 1 /\ hist.wrote = <<CTS_RUN>>
            /\ api_call[2] = ROT_MOVE_UP => ADC_el_target = ADC_el_max
            /\ api_call[2] = ROT_MOVE_DOWN => ADC_el_target = ADC_el_min
            /\ api_call[2] = ROT_MOVE_LEFT => ADC_az_target = ADC_az_min
            /\ api_call[2] = ROT_MOVE_RIGHT => ADC_az_target = ADC_az_max
       ELSE api_ret = G5500_RIG_ERR_BADARGS /\ hist.tw = 0 /\ hist.wrote = <<>>

\* move(UP) on real hardware calibrated 100..1200 has set the elevation target
\* to the upper limit while the azimuth target is not at a limit
C13_Witness ==
    /\ api_call = <<"move", ROT_MOVE_UP, 0>> /\ api_todo = <<>>
    /\ api_ret = G5500_RIG_OK
    /\ g5500_sim_mode = SIM_OFF
    /\ ADC_el_target = 1200 /\ ADC_el_max = 1200
    /\ ADC_az_target = 0

\* C14 (as stated): on real hardware with a calibration file on disk, a
\* move(LEFT) made after a set_position that returned NO_POWER returns OK
\* having written RUN, for every interleaving of the two calls with the
\* controller's loop iterations.
C14_MoveAlwaysRuns ==
    ( /\ api_call = <<"move", ROT_MOVE_LEFT, 0>> /\ api_todo = <<>>
      /\ hist.prev_nopow
      /\ g5500_sim_mode = SIM_OFF /\ cal_file # NoFile )
    => (api_ret = G5500_RIG_OK /\ hist.wrote = <<CTS_RUN>>)

\* C14 (amended): a set_position entered in ERR_NOPOWER returns NO_POWER and
\* writes STOP; the move(LEFT) that follows it returns OK, with the azimuth
\* target at ADC_az_min and RUN written last, when g5500_thread_state is not an
\* error state at its check; when a loop iteration has set an error state
\* again in between, it returns that state's code and writes STOP, no target.
C14_MoveAfterNoPower ==
    /\ ( /\ api_call[1] = "set_position" /\ api_todo = <<>>
         /\ hist.start = CTS_ERR_NOPOWER )
       => (api_ret = G5500_RIG_ERR_NOPOWER /\ hist.wrote = <<CTS_STOP>> /\ hist.tw = 0)
    /\ ( /\ api_call = <<"move", ROT_MOVE_LEFT, 0>> /\ api_todo = <<>>
         /\ hist.prev_nopow
         /\ g5500_sim_mode = SIM_OFF /\ cal_file # NoFile )
       => IF hist.reads[1] \in CTS_ERR
          THEN /\ api_ret = g5500_check_thread_error(hist.reads[1])
               /\ hist.wrote = <<CTS_STOP>> /\ hist.tw = 0
          ELSE /\ api_ret = G5500_RIG_OK
               /\ hist.wrote = <<CTS_RUN>> /\ hist.tw = 1
               /\ ADC_az_target = ADC_az_min

\* power was lost, set_position returned NO_POWER, and the move(LEFT) after it
\* has returned OK with the controller told to run
C14_Witness ==
    /\ api_call = <<"move", ROT_MOVE_LEFT, 0>> /\ api_todo = <<>>
    /\ hist.prev_nopow
    /\ g5500_sim_mode = SIM_OFF /\ cal_file # NoFile
    /\ api_ret = G5500_RIG_OK
    /\ g5500_thread_state = CTS_RUN

\* C15 (as stated): in a loop iteration whose ADC read failed, the steps of
\* the controller that follow the read change no shared scalar, no pin and no
\* status flag (no stall-counter update, no save of now to prev, no status
\* refresh, no per-state action).
C15_SkipsRestOfTick ==
    [][ (hist.fail_tick /\ hist'.fail_tick) => UNCHANGED <<mem, gpio, has_status>> ]_vars

\* C15 (amended): a loop iteration whose ADC read failed is carried through in
\* ERR_ADC: while no API call disturbs it, now has been saved to prev once the
\* stall update is done, the status published after it is that of the error
\* state (BUSY not set), and at its end the error case has stopped both axes,
\* flags 0 and pins idle.
C15_FailedTickIsCompleted ==
    /\ (hist.fail_tick /\ ctl_pc \in {"stall", "capture", "switch", "body"})
       => g5500_thread_state = CTS_ERR_ADC
    /\ (hist.fail_tick /\ ctl_pc \in {"capture", "switch", "body"})
       => (ADC_az_prev = ADC_az_now /\ ADC_el_prev = ADC_el_now)
    /\ (hist.fail_tick /\ ctl_pc \in {"switch", "body"})
       => "BUSY" \notin has_status
    /\ (hist.fail_tick /\ ctl_pc = "body" /\ ctl_todo = <<>>)
       => /\ AZ_cmd_cw = 0 /\ AZ_cmd_ccw = 0 /\ EL_cmd_up = 0 /\ EL_cmd_down = 0
          /\ \A p \in Pins : gpio[p] = PIN_IDLE

\* the elevation read failed while the sweep was driving both axes: the
\* iteration has ended with the azimuth reading saved and the motors stopped
C15_Witness ==
    /\ hist.fail_tick /\ ctl_pc = "body" /\ ctl_todo = <<>>
    /\ g5500_thread_state = CTS_ERR_ADC
    /\ hist.start \in {CTS_STOP, CTS_RUN} /\ api_ret = G5500_RIG_CALIBRATING
    /\ ADC_az_prev = 100
    /\ \A p \in Pins : gpio[p] = PIN_IDLE

\* C16 (as stated): from the return of set_conf(simulator = n) until the next
\* API call, the simulator mode, the elevation cap and the calibration are
\* those of n, g5500_thread_state is STOP (or, on real hardware, an error state
\* entered by a later read), all direction flags are 0, both targets and both
\* stall counters are 0, and in a simulator mode both current ADC values are 0:
\* no loop iteration that ran concurrently has left anything else behind.
C16_ResetIsAtomic ==
    (api_call[1] = "set_conf" /\ api_todo = <<>>)
    => /\ g5500_sim_mode = api_call[2]
       /\ caps_max_el = (CASE api_call[2] = SIM_AZONLY -> 0
                           [] api_call[2] = SIM_EL90 -> 90
                           [] OTHER -> EL_MOUNT_MAX)
       /\ api_call[2] # SIM_OFF
             => /\ ADC_cal_ok = 1
                /\ ADC_az_min = 0 /\ ADC_az_max = AZ_SIM_MAX_ADC /\ ADC_el_min = 0
                /\ ADC_el_max = (IF api_call[2] = SIM_EL90 THEN EL_SIM_MAX_ADC \div 2
                                 ELSE EL_SIM_MAX_ADC)
                /\ ADC_az_now = 0 /\ ADC_el_now = 0
                /\ g5500_thread_state = CTS_STOP
       /\ api_call[2] = SIM_OFF => (ADC_cal_ok = 0 /\ g5500_thread_state \in {CTS_STOP} \cup CTS_ERR)
       /\ AZ_cmd_cw = 0 /\ AZ_cmd_ccw = 0 /\ EL_cmd_up = 0 /\ EL_cmd_down = 0
       /\ ADC_az_target = 0 /\ ADC_el_target = 0
       /\ ADC_az_n_equal = 0 /\ ADC_el_n_equal = 0

\* C17 (as stated): g5500_thread_state and the four direction flags have one
\* writer.  The controller thread has written all five by the time it enters
\* its loop (its first statements), so from then on no step of an API call
\* changes any of them.
C17_SingleWriter ==
    [][ (ctl_pc # "start" /\ (calls' # calls \/ api_todo' # api_todo))
        => /\ g5500_thread_state' = g5500_thread_state
           /\ AZ_cmd_cw' = AZ_cmd_cw /\ AZ_cmd_ccw' = AZ_cmd_ccw
           /\ EL_cmd_up' = EL_cmd_up /\ EL_cmd_down' = EL_cmd_down ]_vars

C19_TargetsVisibleTogether ==
    [][ ( /\ ctl_todo # <<>> /\ Head(ctl_todo)[1] = "seek" /\ ctl_todo' # ctl_todo
          /\ api_call[1] \in {"set_position", "park"} /\ api_todo # <<>> )
        => ~( /\ Head(api_todo)[1] = "tgt" /\ Head(api_todo)[2] = "el"
              /\ hist.az_new
              /\ g5500_el_to_ADC(mem, Head(api_todo)[4]) # ADC_el_target ) ]_vars

\* the last API call was a set_position that returned OK in a simulator mode
SetPositionDoneInSim ==
    /\ api_call[1] = "set_position" /\ api_todo = <<>> /\ api_ret = G5500_RIG_OK
    /\ g5500_sim_mode # SIM_OFF

\* both axes idle within the deadband of their targets, controller in RUN
IdleAtTarget ==
    /\ AZ_cmd_cw = 0 /\ AZ_cmd_ccw = 0 /\ EL_cmd_up = 0 /\ EL_cmd_down = 0
    /\ ADC_az_now <= ADC_az_target + ADC_AZ_DEADBAND
    /\ ADC_az_target <= ADC_az_now + ADC_AZ_DEADBAND
    /\ ADC_el_now <= ADC_el_target + ADC_EL_DEADBAND
    /\ ADC_el_target <= ADC_el_now + ADC_EL_DEADBAND
    /\ g5500_thread_state = CTS_RUN

\* C20: in a simulator mode, when both threads keep running and set_position
\* has returned OK with no API call after it, g5500_thread_state is RUN from
\* the return on, and from some point on both axes are idle within the
\* deadband of their targets for good.
C20_SettlesAtTarget ==
    /\ [](SetPositionDoneInSim => g5500_thread_state = CTS_RUN)
    /\ <>[](SetPositionDoneInSim => IdleAtTarget)

\* set_position(90,45) in SIM_EL180 has been followed to the end: both axes
\* have moved up from 0 and stand idle within the deadband of 400 and 500
C20_Witness ==
    /\ SetPositionDoneInSim /\ IdleAtTarget
    /\ api_call = <<"set_position", 90, 45>>
    /\ g5500_sim_mode = SIM_EL180
    /\ ADC_az_target = 400 /\ ADC_az_now >= 400
    /\ ADC_el_target = 500 /\ ADC_el_now >= 500
    /\ hist.start = CTS_STOP

\* C21 (as stated): when the process has exited from the signal handler, all
\* four pins are idle.
C21_PinsIdleAtExit ==
    Exited => \A p \in Pins : gpio[p] = PIN_IDLE

\* C22 (as stated): once the controller has completed an iteration, the
\* published status has BUSY exactly when g5500_thread_state is CTS_STOP,
\* CTS_RUN or a calibration state, in every state.
C22_BusyIffState ==
    ticks >= 1 => ("BUSY" \in has_status
                    <=> g5500_thread_state \in {CTS_STOP, CTS_RUN} \cup CTS_CAL)

\* C22 (amended): the status changes only in the controller's capture step,
\* once per iteration between the reading and the switch, and that step sets
\* BUSY exactly when g5500_thread_state is then CTS_STOP, CTS_RUN or a
\* calibration state; the status keeps that value until the next capture,
\* whatever the switch or an API call writes to g5500_thread_state meanwhile.
C22_BusyAtCapture ==
    [][ (has_status' # has_status \/ (ctl_pc = "capture" /\ ctl_pc' = "switch"))
          => /\ ctl_pc = "capture"
             /\ "BUSY" \in has_status'
                  <=> g5500_thread_state \in {CTS_STOP, CTS_RUN} \cup CTS_CAL ]_vars

\* a capture after the first iteration found an error state and cleared BUSY
C22_Witness ==
    /\ ticks >= 1
    /\ ctl_pc = "switch"
    /\ api_call[1] = "none"
    /\ g5500_thread_state \in CTS_ERR
    /\ "BUSY" \notin has_status

\* C23: with a valid calibration, converting a count of [ADC_az_min,
\* ADC_az_max] to degrees and back gives the count or a count one away from it.
C23_AzRoundTrip ==
    api_call[1] = "az_round_trip"
      => /\ ADC_az_target - ADC_az_now <= 1
         /\ ADC_az_now - ADC_az_target <= 1

\* a count inside the range that comes back one lower
C23_Witness ==
    /\ api_call[1] = "az_round_trip"
    /\ ADC_az_min < ADC_az_now /\ ADC_az_now < ADC_az_max
    /\ ADC_az_target = ADC_az_now - 1

C25_StallCounters ==
    /\ [](/\ mem["ADC_az_n_equal"] \in 0..N_EQUAL_STOPPED
          /\ mem["ADC_el_n_equal"] \in 0..N_EQUAL_STOPPED)
    /\ [][ (ctl_pc = "stall" /\ ctl_pc' = "capture")
             => LET rule(flag, now, prev, n) ==
                        IF flag /\ now = prev
                        THEN (IF n < N_EQUAL_STOPPED THEN n + 1 ELSE N_EQUAL_STOPPED)
                        ELSE 0
                IN  /\ mem'["ADC_az_n_equal"] =
                          rule(mem["AZ_cmd_cw"] # 0 \/ mem["AZ_cmd_ccw"] # 0,
                               mem["ADC_az_now"], mem["ADC_az_prev"],
                               mem["ADC_az_n_equal"])
                    /\ mem'["ADC_el_n_equal"] =
                          rule(mem["EL_cmd_up"] # 0 \/ mem["EL_cmd_down"] # 0,
                               mem["ADC_el_now"], mem["ADC_el_prev"],
                               mem["ADC_el_n_equal"])
                    /\ mem'["ADC_az_prev"] = mem["ADC_az_now"]
                    /\ mem'["ADC_el_prev"] = mem["ADC_el_now"]
                    /\ (mem'["AZ_cmd_cw"] = 0 /\ mem'["AZ_cmd_ccw"] = 0)
                          => mem'["ADC_az_n_equal"] = 0
                    /\ (mem'["EL_cmd_up"] = 0 /\ mem'["EL_cmd_down"] = 0)
                          => mem'["ADC_el_n_equal"] = 0 ]_vars

\* the update has just left a commanded, motionless azimuth axis at the cap
\* while the elevation axis, which moved, is back at 0
C25_Witness ==
    /\ ctl_pc = "capture"
    /\ mem["AZ_cmd_ccw"] # 0 /\ mem["EL_cmd_down"] # 0
    /\ mem["ADC_az_n_equal"] = N_EQUAL_STOPPED
    /\ mem["ADC_el_n_equal"] = 0

\* C26: with calls falling between iterations, an iteration of the RUN case
\* never ends in CTS_RUN with an axis that was commanded at its top and whose
\* stall counter is at N_EQUAL_STOPPED; an iteration that enters CTS_ERR_STUCK
\* has such an axis and has cleared its direction flags; and CTS_ERR_STUCK is
\* only ever written over CTS_RUN, never over a calibration state.
C26_StuckInRun ==
    /\ []( (ctl_pc = "body" /\ ctl_todo = <<>>)
            => /\ g5500_thread_state = CTS_RUN
                   => /\ ~("MOVING_AZ" \in has_status
                           /\ mem["ADC_az_n_equal"] >= N_EQUAL_STOPPED)
                      /\ ~("MOVING_EL" \in has_status
                           /\ mem["ADC_el_n_equal"] >= N_EQUAL_STOPPED)
               /\ (g5500_thread_state = CTS_ERR_STUCK /\ "BUSY" \in has_status)
                   => \/ /\ "MOVING_AZ" \in has_status
                         /\ mem["ADC_az_n_equal"] = N_EQUAL_STOPPED
                         /\ AZ_cmd_cw = 0 /\ AZ_cmd_ccw = 0
                      \/ /\ "MOVING_EL" \in has_status
                         /\ mem["ADC_el_n_equal"] = N_EQUAL_STOPPED
                         /\ EL_cmd_up = 0 /\ EL_cmd_down = 0 )
    /\ [][ (mem'["g5500_thread_state"] = CTS_ERR_STUCK
            /\ g5500_thread_state # CTS_ERR_STUCK) => g5500_thread_state = CTS_RUN ]_vars

\* an iteration of the RUN case has found the azimuth axis, commanded left,
\* with its counter at N_EQUAL_STOPPED, and has stopped it in CTS_ERR_STUCK
C26_Witness ==
    /\ ctl_pc = "body" /\ ctl_todo = <<>>
    /\ g5500_thread_state = CTS_ERR_STUCK
    /\ {"BUSY", "MOVING_LEFT"} \subseteq has_status
    /\ mem["ADC_az_n_equal"] = N_EQUAL_STOPPED
    /\ AZ_cmd_ccw = 0 /\ AZ_cmd_cw = 0
    /\ gpio[PIN_AZ_CCW] = PIN_IDLE

\* C27: with calls falling between iterations, at the end of an iteration of
\* the RUN case an axis that was moving at its top (as the captured status
\* shows) and is not stuck is still moving the same way exactly if it has not
\* reached its target (left/down: now > target, right/up: now < target), with
\* no deadband, and is never commanded the opposite way.
C27_StopOnCrossing ==
    (/\ ctl_pc = "body" /\ ctl_todo = <<>>
     /\ \/ g5500_thread_state = CTS_RUN
        \/ g5500_thread_state = CTS_ERR_STUCK /\ "BUSY" \in has_status)
    => /\ ("MOVING_LEFT" \in has_status /\ mem["ADC_az_n_equal"] < N_EQUAL_STOPPED)
            => AZ_cmd_cw = 0 /\ (AZ_cmd_ccw = 0 <=> ADC_az_now <= ADC_az_target)
       /\ ("MOVING_RIGHT" \in has_status /\ mem["ADC_az_n_equal"] < N_EQUAL_STOPPED)
            => AZ_cmd_ccw = 0 /\ (AZ_cmd_cw = 0 <=> ADC_az_now >= ADC_az_target)
       /\ ("MOVING_DOWN" \in has_status /\ mem["ADC_el_n_equal"] < N_EQUAL_STOPPED)
            => EL_cmd_up = 0 /\ (EL_cmd_down = 0 <=> ADC_el_now <= ADC_el_target)
       /\ ("MOVING_UP" \in has_status /\ mem["ADC_el_n_equal"] < N_EQUAL_STOPPED)
            => EL_cmd_down = 0 /\ (EL_cmd_up = 0 <=> ADC_el_now >= ADC_el_target)

\* the elevation axis, moving up, is within the deadband below its target and
\* has been left moving
C27_Witness ==
    /\ ctl_pc = "body" /\ ctl_todo = <<>> /\ g5500_thread_state = CTS_RUN
    /\ "MOVING_UP" \in has_status
    /\ ADC_el_now < ADC_el_target /\ ADC_el_now + ADC_EL_DEADBAND >= ADC_el_target
    /\ EL_cmd_up # 0 /\ EL_cmd_down = 0

\* C28: with calls falling between iterations, at the end of an iteration of
\* the RUN case an axis that was idle at its top is commanded left/down exactly
\* if now > target + 50 and right/up exactly if now + 50 < target; within the
\* deadband it is left idle.
C28_StartOutsideDeadband ==
    (/\ ctl_pc = "body" /\ ctl_todo = <<>>
     /\ \/ g5500_thread_state = CTS_RUN
        \/ g5500_thread_state = CTS_ERR_STUCK /\ "BUSY" \in has_status)
    => /\ "MOVING_AZ" \notin has_status
            => /\ AZ_cmd_ccw # 0 <=> ADC_az_now > ADC_az_target + ADC_AZ_DEADBAND
               /\ AZ_cmd_cw # 0 <=> ADC_az_now + ADC_AZ_DEADBAND < ADC_az_target
       /\ "MOVING_EL" \notin has_status
            => /\ EL_cmd_down # 0 <=> ADC_el_now > ADC_el_target + ADC_EL_DEADBAND
               /\ EL_cmd_up # 0 <=> ADC_el_now + ADC_EL_DEADBAND < ADC_el_target

\* the azimuth axis, idle, is off its target by less than the deadband and has
\* been left idle
C28_Witness ==
    /\ ctl_pc = "body" /\ ctl_todo = <<>> /\ g5500_thread_state = CTS_RUN
    /\ "MOVING_AZ" \notin has_status
    /\ ADC_az_now # ADC_az_target
    /\ ADC_az_now <= ADC_az_target + ADC_AZ_DEADBAND
    /\ ADC_az_now + ADC_AZ_DEADBAND >= ADC_az_target
    /\ AZ_cmd_ccw = 0 /\ AZ_cmd_cw = 0

\* C29 (as stated): a simulator reading leaves the value of an axis with no
\* direction flag as it is, keeps both values within 0..max, and changes the
\* value of a commanded axis, away from the two bounds, by the step that the
\* opposite direction would make from the same value.
C29_SameStepBothWays ==
    [][ (ctl_pc = "read" /\ ctl_pc' = "stall" /\ g5500_sim_mode # SIM_OFF)
          => LET azU == SimUp(ADC_az_now, AZ_SIM_SPEED, ADC_az_max, AZ_MOUNT_MAX)
                 azD == SimDown(ADC_az_now, AZ_SIM_SPEED, ADC_az_max, AZ_MOUNT_MAX)
                 elU == SimUp(ADC_el_now, EL_SIM_SPEED, ADC_el_max, el_mount_max)
                 elD == SimDown(ADC_el_now, EL_SIM_SPEED, ADC_el_max, el_mount_max)
             IN  /\ (AZ_cmd_cw = 0 /\ AZ_cmd_ccw = 0)
                       => mem'["ADC_az_now"] = ADC_az_now
                 /\ (EL_cmd_up = 0 /\ EL_cmd_down = 0)
                       => mem'["ADC_el_now"] = ADC_el_now
                 /\ mem'["ADC_az_now"] \in 0..ADC_az_max
                 /\ mem'["ADC_el_now"] \in 0..ADC_el_max
                 /\ (mem'["ADC_az_now"] # ADC_az_now /\ azD > 0 /\ azU < ADC_az_max)
                       => azU - ADC_az_now = ADC_az_now - azD
                 /\ (mem'["ADC_el_now"] # ADC_el_now /\ elD > 0 /\ elU < ADC_el_max)
                       => elU - ADC_el_now = ADC_el_now - elD ]_vars

\* C30: in SIM_EL180, with set_position(90, 45) called at ADC position (0, 0)
\* and returned OK, after 45 iterations of the controller ADC_az_now is within
\* ADC_AZ_DEADBAND of g5500_az_to_ADC(90), which is 400.
C30_NearTargetAfter45 ==
    (/\ g5500_sim_mode = SIM_EL180
     /\ api_call = <<"set_position", 90, 45>> /\ api_ret = G5500_RIG_OK
     /\ ticks >= 45)
    => /\ g5500_az_to_ADC(mem, 90) = 400
       /\ ADC_az_now <= 400 + ADC_AZ_DEADBAND
       /\ ADC_az_now + ADC_AZ_DEADBAND >= 400

\* the 45th iteration has ended with the azimuth axis inside the deadband,
\* short of the target and still moving right
C30_Witness ==
    /\ g5500_sim_mode = SIM_EL180
    /\ api_call = <<"set_position", 90, 45>> /\ api_ret = G5500_RIG_OK
    /\ ticks = 45 /\ ctl_pc = "read"
    /\ ADC_az_now < 400 /\ ADC_az_now + ADC_AZ_DEADBAND >= 400
    /\ AZ_cmd_cw # 0

\* C31: every rotctld command form of the program header (single letter,
\* \long name and +\long name of get_pos, set_pos, move, park, stop, get_info
\* and dump_caps), sent as one newline-terminated line, is dispatched by the
\* first runRotator that reads it to the call it names with the arguments as
\* sent, that runRotator consumes the whole line, and one reply is produced.
C31_Expected == (CHOOSE e \in rotctld_commands : e[1] = hist.line)[2]
C31_DispatchAsSent ==
    hist.replies >= 1 =>
        /\ api_call = C31_Expected
        /\ hist.replies = 1
        /\ hist.rx = <<>>

\* C32: after any sequence of loop iterations and API calls, set_conf of the
\* simulator mode included, a pin is active at the end of a loop iteration only
\* if its direction flag is set: a switch from SIM_OFF to a simulator mode while
\* an axis is driven leaves no pin active with its flag cleared.
C32_PinOnlyIfFlag ==
    (ctl_pc = "body" /\ ctl_todo = <<>>)
    => /\ gpio[PIN_AZ_CW] = PIN_ACTIVE => AZ_cmd_cw # 0
       /\ gpio[PIN_AZ_CCW] = PIN_ACTIVE => AZ_cmd_ccw # 0
       /\ gpio[PIN_EL_UP] = PIN_ACTIVE => EL_cmd_up # 0
       /\ gpio[PIN_EL_DOWN] = PIN_ACTIVE => EL_cmd_down # 0

\* C33: whenever the controller enters the RUN case with the calibration
\* valid, both targets lie within the calibrated range of their axis, for every
\* sequence of calls, a first move(direction) after a file load included.
C33_TargetsInRangeInRun ==
    (ctl_pc = "switch" /\ g5500_thread_state = CTS_RUN /\ ADC_cal_ok = 1)
    => /\ ADC_az_min <= ADC_az_target /\ ADC_az_target <= ADC_az_max
       /\ ADC_el_min <= ADC_el_target /\ ADC_el_target <= ADC_el_max

\* C34: no step of move(direction) changes the target of the axis it does not
\* name (move(UP) and move(DOWN) leave ADC_az_target alone, move(LEFT) and
\* move(RIGHT) leave ADC_el_target alone, any other direction leaves both), and
\* a move that returns OK leaves g5500_thread_state = RUN: after a stop() the
\* other axis therefore seeks again the target it had before.
C34_MoveWritesOneTarget ==
    [][ (api_call'[1] = "move" /\ (calls' # calls \/ api_todo' # api_todo))
        => /\ api_call'[2] \notin {ROT_MOVE_LEFT, ROT_MOVE_RIGHT}
                 => ADC_az_target' = ADC_az_target
           /\ api_call'[2] \notin {ROT_MOVE_UP, ROT_MOVE_DOWN}
                 => ADC_el_target' = ADC_el_target
           /\ api_ret' = G5500_RIG_OK => g5500_thread_state' = CTS_RUN ]_vars

\* set_position(90, 45) made the azimuth target 320 and the mount, standing at
\* 1200, turned left; stop() stopped it; move(UP) was the next call: the
\* azimuth target is still 320 and the azimuth axis turns left again
C34_Witness ==
    /\ api_call = <<"move", ROT_MOVE_UP, 0>> /\ api_ret = G5500_RIG_OK
    /\ hist.start = CTS_STOP
    /\ g5500_thread_state = CTS_RUN
    /\ ADC_el_target = ADC_el_max
    /\ ADC_az_target = g5500_az_to_ADC(mem, 90) /\ ADC_az_target # 0
    /\ AZ_cmd_ccw # 0 /\ gpio[PIN_AZ_CCW] = PIN_ACTIVE
    /\ ADC_az_n_equal = 1

\* C35: a step of get_position taken while the calibration is valid and
\* g5500_thread_state is no error state writes nothing (controller state,
\* targets, direction flags, calibration, calibration file and pins keep their
\* values), and if the call returns in that step it returns OK.
C35_GetPositionReadOnly ==
    [][ ( /\ api_call'[1] = "get_position"
          /\ (calls' # calls \/ api_todo' # api_todo)
          /\ ADC_cal_ok # 0
          /\ g5500_thread_state \notin CTS_ERR )
        => /\ mem' = mem /\ cal_file' = cal_file /\ gpio' = gpio
           /\ api_ret' \in {"pending", G5500_RIG_OK} ]_vars

\* get_position has returned OK while the mount, calibrated from the file, is
\* on its way to the target of the set_position before it
C35_Witness ==
    /\ api_call[1] = "get_position" /\ api_todo = <<>> /\ api_ret = G5500_RIG_OK
    /\ Len(hist.reads) = 2 /\ hist.wrote = <<>> /\ hist.tw = 0
    /\ ADC_cal_ok = 1 /\ g5500_thread_state = CTS_RUN
    /\ ADC_az_target = ADC_az_max
    /\ AZ_cmd_cw # 0

\* C36: the controller alone never leaves the error states.  A step of the
\* controller taken with g5500_thread_state in ERR_ADC, ERR_NOPOWER or
\* ERR_STUCK, in a loop iteration that published its status in an error state
\* or has not published it yet, leaves the state in one of the three (an ADC
\* read that succeeds with the power back included), sets no direction flag
\* and makes no pin active.
C36_TicksKeepError ==
    [][ ( /\ calls' = calls /\ api_todo' = api_todo
          /\ g5500_thread_state \in CTS_ERR
          /\ ctl_pc # "start"
          /\ ctl_pc = "body" => "BUSY" \notin has_status )
        => /\ g5500_thread_state' \in CTS_ERR
           /\ AZ_cmd_cw' <= AZ_cmd_cw /\ AZ_cmd_ccw' <= AZ_cmd_ccw
           /\ EL_cmd_up' <= EL_cmd_up /\ EL_cmd_down' <= EL_cmd_down
           /\ \A p \in Pins : gpio'[p] = PIN_ACTIVE => gpio[p] = PIN_ACTIVE ]_vars

\* an iteration that began in ERR_NOPOWER has read the power and both axes
\* successfully and has run its case: the state is still ERR_NOPOWER, nothing
\* moves
C36_Witness ==
    /\ ctl_pc = "body" /\ ctl_todo = <<>>
    /\ "BUSY" \notin has_status
    /\ g5500_thread_state = CTS_ERR_NOPOWER
    /\ ADC_az_now = 1200 /\ ADC_el_now = 1200
    /\ ADC_az_prev = 1200 /\ ADC_el_prev = 1200
    /\ AZ_cmd_cw = 0 /\ AZ_cmd_ccw = 0 /\ EL_cmd_up = 0 /\ EL_cmd_down = 0
    /\ \A p \in Pins : gpio[p] = PIN_IDLE

\* C37: a step of set_position, move, park or get_position taken while
\* g5500_thread_state is CAL_START, CAL_SEEK_MINS or CAL_SEEK_MAXS leaves
\* g5500_thread_state unchanged: no such call restarts the sweep or switches
\* the thread to RUN.
C37_CallsKeepCalState ==
    [][ ( /\ api_call'[1] \in {"set_position", "move", "park", "get_position"}
          /\ (calls' # calls \/ api_todo' # api_todo)
          /\ g5500_thread_state \in CTS_CAL )
        => g5500_thread_state' = g5500_thread_state ]_vars

\* C38: from the step in which the sweep has latched ADC_az_min and ADC_el_min
\* (the thread is in CAL_SEEK_MAXS) to the end of the sweep no step changes
\* either of them, whatever calls arrive, so the minima the sweep writes to the
\* file are the ones it latched.
C38_MinsKeptInSweep ==
    [][ g5500_thread_state = CTS_CAL_SEEK_MAXS
        => (ADC_az_min' = ADC_az_min /\ ADC_el_min' = ADC_el_min) ]_vars

\* C39: a sweep that ends with a range of less than 1000 counts on an axis
\* leaves the calibration invalid; the set_position, move, park or
\* get_position entered in STOP after a sweep whose file holds such a range
\* returns CALIBRATING, leaves the calibration invalid and requests a new
\* sweep; and the thread is in RUN only with the calibration valid and both
\* ranges at least 1000 counts wide, so a mount whose sweeps stay narrow never
\* runs.
C39_NarrowSpan(m) ==
    \/ m["ADC_az_max"] < m["ADC_az_min"] + CAL_MIN_SPAN
    \/ m["ADC_el_max"] < m["ADC_el_min"] + CAL_MIN_SPAN
C39_NarrowSweepResweeps ==
    /\ [](g5500_thread_state = CTS_RUN => (ADC_cal_ok = 1 /\ ~C39_NarrowSpan(mem)))
    /\ [][ /\ ( /\ api_call' = api_call /\ api_todo' = api_todo
                /\ g5500_thread_state = CTS_CAL_SEEK_MAXS /\ g5500_thread_state' = CTS_STOP
                /\ C39_NarrowSpan(mem') )
             => ADC_cal_ok' = 0
          /\ ( /\ api_call' # api_call \/ api_todo' # api_todo
               /\ api_call'[1] \in {"set_position", "move", "park", "get_position"}
               /\ api_todo' = <<>>
               /\ hist.saves >= 1 /\ hist'.start = CTS_STOP
               /\ cal_file = CalLines(ADC_az_min', ADC_az_max', ADC_el_min', ADC_el_max')
               /\ C39_NarrowSpan(mem') )
             => /\ api_ret' = G5500_RIG_CALIBRATING
                /\ ADC_cal_ok' = 0
                /\ hist'.wrote = <<CTS_CAL_START>>
                /\ g5500_thread_state' = CTS_CAL_START ]_vars

\* a sweep latched 100 and 600 on both axes and wrote them to the file; the
\* park that followed it returned CALIBRATING and the next sweep is under way
C39_Witness ==
    /\ api_call[1] = "park" /\ api_todo = <<>> /\ api_ret = G5500_RIG_CALIBRATING
    /\ calls = 2
    /\ hist.start = CTS_STOP /\ hist.wrote = <<CTS_CAL_START>>
    /\ cal_file = CalLines(100, 600, 100, 600)
    /\ ADC_az_min = 100 /\ ADC_az_max = 600
    /\ ADC_cal_ok = 0
    /\ g5500_thread_state = CTS_CAL_SEEK_MINS

=============================================================================
